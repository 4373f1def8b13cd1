# Verification of SacramentuOS in TLA+

SacramentuOS is a 32-bit kernel for one processor: interrupt handlers feed a
keyboard ring and a mouse position, and one thread runs a pixel desktop in an
endless loop. This directory holds TLA+ models of the parts of it where the
order of events matters, TLC configurations that check them on small instances,
and theorems about them that TLAPS checks for every value of the constants.

Paths below are relative to the repository (`src/gui.c` is the desktop).

## 1. Inventory

| Part | Source | State | Operations |
|---|---|---|---|
| Keyboard driver | `src/keyboard.c` | ring `buffer`, `head`, `tail`; `shift_down`, `ctrl_down`, `caps_lock`, `extended`; `ctrl_c_pending` | IRQ1 handler; `keyboard_trygetkey`, `getkey`, `trygetchar`, `getchar`, `cancel_requested`, `clear_cancel`, `flush` |
| Mouse driver | `src/mouse.c` | packet parser `g_packet`, `g_cycle`; `g_x`, `g_y`; buttons and edges; `g_present` | IRQ12 handler; `mouse_poll`, `mouse_get_state`, `mouse_install` |
| Desktop shell | `src/gui.c` | `windows[]`, `active_app`, Start menu, drag | `handle_key`, `handle_mouse`, `open_app`, `close_app`, `cycle_active` |
| Explorer | `src/gui.c` | `explorer_path`, `explorer_selected` | `explorer_open_selected`, `handle_explorer_key` |
| Settings | `src/gui.c` | `settings_selected`, `theme_index` | `handle_settings_key`, console `theme` |
| Console | `src/gui.c` | input line, output lines, history, notes, todos, log | `handle_console_key`, `console_exec` |
| Code Studio | `src/gui.c` | RAM files, `code_file`, cursor, view, `code_dirty` | `code_open_file`, `handle_code_key`, `editor_clamp`, console `rm` |
| Interrupts | `src/idt.c`, `src/interrupt.S` | IDT, handler table, both 8259 | `idt_install`, `pic_remap`, `register_interrupt_handler`, `irq_handler`, `isr_handler` |
| Timer | `src/timer.c` | `tick_count`, 32 bits | IRQ0 handler, `timer_sleep`, `timer_install` |
| Real-time clock | `src/rtc.c` | the CMOS registers, which change by themselves | `rtc_read_time` |
| Text terminal | `src/vga.c` | row, column, colour, cells | `terminal_*` |
| Framebuffer | `src/fb.c` | size, pitch and depth of the mode, the screen's memory, the back buffer | `fb_init_from_multiboot`, `fb_put_pixel`, `fb_fill_rect`, `fb_line`, `fb_text`, `fb_present` |
| Windows | `src/gui.c` | place and size in `windows[]`, the drag's grip, the frame | `fit_window`, `top_window_at`, `handle_mouse`, `draw_pixel_desktop` |
| Text fallback | `src/gui.c` | input line | `gui_start_text_fallback` |
| Text shell | `src/shell.c` | the line, history, log, notes, todos, RAM files, the editor's buffer | `read_line`, `shell_start`, `cmd_todo`, ..., `cmd_edit`, `cmd_rm`; compiled and linked, but `shell_start` has no caller |
| Helpers | `src/string.c`, `src/kprintf.c` | none | strings, numbers, printing |
| Boot | `src/kernel.c`, `src/boot.S` | none of its own | initialisation with interrupts disabled, `mouse_install` included |
| System | `src/system.c`, `include/io.h` | memory sizes | `system_reboot`, `system_halt`, port access |
| Hardware | `src/hw.c`, `src/usb.c` | what CPUID and PCI say | detection at boot |
| UEFI application | `src/uefi/uefi_main.c` | a desktop of its own | a second program on firmware services |

How they interact: IRQ1 and IRQ12 handlers run between any two instructions of
the thread once `kernel_main` has executed `sti`; nothing in the thread masks
interrupts again. All gates are interrupt gates (`flags = 0x8E` in `idt.c`) and
there is one processor, so a handler runs to its end. The thread
(`gui_start_pixel`) repeats: drain the keyboard ring into `handle_key`,
`mouse_get_state`, `handle_mouse`, draw, `timer_sleep(20)`. `mouse_get_state`
first calls `mouse_poll`, which parses mouse packets in the thread with the
code and the variables the IRQ12 handler uses. Keyboard and mouse share one output
buffer in the 8042. Handlers and thread share only volatile variables; there
are no locks.

What is hard, and what makes each part correct:

- Keyboard ring: two executions on one ring, a bound, a wait by `hlt`.
  Correct if it is a bounded FIFO queue and a waiting caller gets its key.
- Decoder: two-byte codes and shared modifier flags. Correct if no modifier stays
  down by itself.
- Mouse: two parsers on the same packet, two devices on the same port. Correct if
  packets are parsed whole, the pointer stays on the screen, presses
  are reported, keyboard bytes are left to the keyboard.
- Desktop: long sequences of keys, clicks and commands. Correct if keys go to an
  open window, every window can be reached, selections stay in their
  lists, and the Start menu, the drag and the function keys do what the help says.
- Code Studio: indices into a table that `rm` compacts, text at its limits. Correct if no key leaves
  the arrays, a key changes one character of one file, and closing the editor leaves the text in the file it names.
- Shell's editor: a copy of a file, saves that may fail, names cut to an array. Correct if "saved" is true.
- Terminal and shell: boundary cells of the screen, lists that drop entries, arrays whose slots are used again. Correct if
  the screen shows the line that is being read, the log agrees with the history, and tasks are done only when they have been marked.
- Timer and clock: a counter that wraps, a HLT after a test, seven reads of a clock that goes on. Correct if a sleep lasts its ticks and the time
  returned is one that was.
- Boot: the order of installations, answers that come late or not at all, bytes that somebody else sends. Correct if no interrupt finds
  less than it needs and the keyboard survives the mouse's installation.
- Windows and framebuffer: limits that contradict each other on a small screen, two memories with different row lengths, rectangles that are cut
  off, an order of drawing and an order of hit tests. Correct if every window can be reached, the screen shows the whole frame, and a click goes to what is seen.

Nothing is persisted, nothing is sent over a network, and there is no second
thread: crash recovery and message loss are no hazards here, except for bytes
and answers of the 8042. `PROJECT.json` lists every hazard at its line.

## 2. Modules

| Module | Models | Extends |
|---|---|---|
| `KeyQueue` | what the keyboard driver promises: a bounded FIFO queue that drops the newest key when full | |
| `Keyboard` | `keyboard.c` with the keyboard, its interrupt and the timer's | |
| `ScanCodes` | the two scan code tables, as constants for `Keyboard` | |
| `MCKeyboard` | small keyboards for TLC | `Keyboard`, `ScanCodes` |
| `KeyboardProofs` | theorems about `Keyboard` | `Keyboard` |
| `PS2Mouse` | `mouse.c` with the 8042, the interrupt controller and IRQ1 | |
| `MCPS2Mouse` | two packets for TLC | `PS2Mouse` |
| `PS2MouseProofs` | theorems about `PS2Mouse` | `PS2Mouse` |
| `Desktop` | windows, focus, menu, drag and dispatch of `gui.c` | |
| `MCDesktop` | a small desktop for TLC | `Desktop` |
| `DesktopProofs` | theorems about `Desktop` | `Desktop` |
| `TextLines` | the keys of both editors: what they do to a sequence of lines and a cursor | instance of `FlatText` |
| `FlatText` | the same text as its user sees it, one string | |
| `FileList` | what Code Studio promises: a list of files in which a name means the first file of that name, and a key changes one character of the file opened | `FlatText` |
| `NotePad` | what the shell's editor promises: a page, stored by saving alone | `FlatText` |
| `CodeStudio` | the RAM files and the editor of `gui.c` | `TextLines`, instance of `FileList` |
| `ShellEditor` | the RAM files and the editor of `shell.c` | `TextLines`, instance of `NotePad` |
| `MCCodeStudio`, `MCShellEditor` | small storages for TLC | `CodeStudio`, `ShellEditor` |
| `TextLinesProofs` | lemmas and theorems about the keys and the flat text | `TextLines` |
| `CodeStudioProofs`, `ShellEditorProofs` | theorems about the editors | the editor, `TextLinesProofs` |
| `Terminal` | the cells and the cursor of `vga.c`, as operators | |
| `TodoList` | what the shell's todo commands promise: a list of tasks | |
| `Shell` | login, prompt, line and lists of `shell.c` on the terminal | `Terminal`, instance of `TodoList` |
| `MCShell` | a small screen for TLC | `Shell` |
| `ShellProofs` | theorems about `Terminal` and `Shell` | `Shell` |
| `Timer` | `timer.c`: the counter, its interrupt, `timer_sleep` | |
| `Rtc` | `rtc.c` against a clock that goes on | |
| `FrameLoop` | the loop of `gui_start_pixel` as far as it depends on time | `Timer`, `Rtc` |
| `MCFrameLoop` | a small counter and six times for TLC | `FrameLoop` |
| `Boot` | `kernel_main`, `idt.c`, `mouse_install` with the 8042 and the two 8259 | |
| `MCBoot` | a firmware, a key and a packet for TLC | `Boot` |
| `Framebuffer` | `fb.c`: modes, the two memories, pixels, rectangles, lines, `fb_present` | |
| `Windows` | place, drawing and hit test of the windows of `gui.c` | `Framebuffer` |
| `MCScreen` | three small screens for TLC | `Windows` |
| `KernelProofs` | theorems about `Windows`, `Framebuffer`, `FrameLoop` and `Boot` | `Windows`, `FrameLoop`, `Boot` |

The modules of proofs also extend `TLAPS` and theorem modules of its library.

Definitions keep the names of the C functions and variables; `PROJECT.json`
("map") gives the lines of each. A definition whose comment says "Defective
variant" is a plausible bug in the definition that follows it. It is used by no
specification: it shows that the property named with it in `PROJECT.json` notices.
`KernelProofs` extends three specifications at once, so theirs have names of their own
(`FrameSpec`, `bootVars`, ...).

### Keyboard

The handler is the one action `KeyboardIrq`: it takes a byte from port 0x60 and
does one of the five branches of `keyboard_callback`. The thread's functions are
cut at their accesses to what they share with the handler: `CheckEmpty` and
`CheckNonEmpty` (`head == tail`), `ReadSlot` (`buffer[tail]`), `AdvanceTail`, the
test and the reset of `ctrl_c_pending`, and `Halt`. `keyboard_getchar` and
`trygetchar` are `getkey` and `trygetkey` with what they do to a key that is no
character. `Halt` is a step of its own after the test, so that a key may arrive
between the two. The keyboard sends make and break codes of the keys that are held
(`Press`, `Release`) in order; `overflow` is a history variable.

Left out: `keyboard_flush` as a call (its only call is in `keyboard_install`,
before interrupts are enabled), the shift wrappers that some keyboards send
round a grey key, the `E1` code of Pause.

### PS2Mouse

The 8042 has one output buffer (`obuf`) that the keyboard or the mouse fills
(`LoadKeyByte`, `LoadMouseByte`); filling it latches a request that the interrupt
controller delivers when it can, IRQ1 first. A request stays latched if the byte is
read by polling. An empty buffer reads as its last byte (`latch`). The IRQ12 handler
is the one action `MouseIrq`, since it runs to its end on the only processor. The thread, in `mouse_get_state` and the functions it
calls, makes one access to a shared variable or a port per step, in the order the
compiler keeps for volatile variables; `g_packet[g_cycle++] = data` is a load,
a store to `g_cycle` and a store to `g_packet` (`Index`, `Increment`, `Store`), which
is also what the objects under `build/` do. The bytes of a packet are loaded one by one (`DeltaOfX`, `DeltaOfY`, the tests `OverflowX` and
`OverflowY` of the first byte), and so are the old and the new buttons (`Old`, `Now`), their store and the two edges (`Buttons`, `Edges`), and the copies
and resets of `mouse_get_state` (`CopyButtons` to `ClearReleased`): the handler may put another packet, or another press, between any two of them. What lies behind the three bytes of
`g_packet` is the linker's choice; the prebuilt kernel has `g_present` there, and
`StoreAt` says so.

`irq12Works` is FALSE on a machine where the interrupt does not reach the
processor and `mouse_poll` is alone, and TRUE where both parse. In the
second case the devices send at most `MaxEvents` bytes, three for a packet and one for a key.

Left out: the dialogue of `mouse_install` with the controller, which is in `Boot`; the right button,
`g_dx`, `g_dy` and `g_moved`, which no caller reads.

### Desktop

One action for a key (`KeyStep`, the whole of `handle_key`) and one for a report of
the mouse (`MouseStep`, the whole of `handle_mouse`); the loop of
`gui_start_pixel` makes any number of the first between two of the second, so they
interleave freely. `handle_key` is cut like the code: an open menu takes every
key (`MenuKey`), then the desktop's own keys (`DesktopKey`), then the window in focus
(`WindowKey`). A click is where it can hit: the Start button, an item of the open
menu, an icon, or a window (its close button, its title bar, an Explorer entry,
a Settings row, elsewhere). Any open window may be the one on top at a place, because
positions are in `Windows`. `console_exec` is its effect on the desktop; commands
that write text only are the stutter.

A report carries the button and its two edges. `LostEdges` says whether the
edges may be incomplete: the handler may record an edge between the copy
and the reset in `mouse_get_state` (`mouse.c`, lines 136 to 145), and then it is lost.

Abstracted: names of files are the names as stored, and the index of the open file is
not kept. Both are in `CodeStudio`.

### TextLines, CodeStudio and ShellEditor

The two editors have the same keys, written twice (`shell.c`, lines 990 to 1083; `gui.c`,
line 286). `TextLines` has them once, as operators on a record of the text, the cursor and the
modified flag; a `strcpy` of a line or a shift of lines is a `SubSeq`. `AfterKey` is the edit after any key, character (`CharTyped`), move or edit key. A line is a sequence
shorter than `EDIT_LINE_MAX`, because one byte ends it.

`CodeStudio` edits in place. Its files are the slots of an array, the slots behind
`edit_file_count` included, since `code_file` can point at one of them after `rm`. The model
has every order of the editor's keys, the console's `edit`, `code` and `rm`, and frames
(`draw_code`, which clamps the cursor). What `Desktop` decides, which window gets a key, is left to
`Desktop`: between two keys of the editor anything may happen here that some sequence of keys
and clicks allows there. F7 is absent because it never arrives: `handle_key` takes it for the hotkey of GPUx first (`Desktop!DesktopKey`).
Two history variables, which the code does not have, say that the last step was a frame (`drawn`) and that `rm` has taken the edited file or one before it
away (`stale`). With the first, `CursorShown` is a statement on every state a frame leaves, also a frame that changes nothing. With the second,
`FileList` can demand that a key changes the file that was opened and no other; once the index is stale it demands no more than one file and one character, because then the code
does edit another file or none (`F8Saves`).

`ShellEditor` edits a copy. One step is one command, or one turn of the loop in `cmd_edit`: the key, then
the clamping and scrolling before the next. A character in a full line is refused with a message and changes nothing (`Refused`); `gui.c` does not insert it either, but
moves the cursor, which is clamped, and counts the file as changed. `cmd_rm` cannot run during an edit.

Both models look names up as the code does: `gui.c` in full and `shell.c` cut to
`EDIT_NAME_MAX`, while both store them cut (`Cut`).

Left out: the status line and the messages, and that the window of Code Studio may be too low for the
28 rows that `editor_clamp` counts on (geometry).

### Terminal and Shell

`Terminal` has the functions of `vga.c` as operators on a record of the cells and the cursor. `Shell` runs the dialogue on it:
`Output` (what the program prints, one character a step, any characters), `Prompt` (the question or the prompt, character by
character), the keys of `read_line` (`Type`, `Erase`, `EnterName`, `EnterBlank`, `EnterUnknown`, `EnterCommand`, `CtrlC`), and with
`EnterCommand` everything `shell_start` does to a line: trimming, the history, the first word, the log, and the command's change to
the lists, the screen or the machine. A command is known by its name; its arguments are not taken from the line, so each name may do
what any command does. `next_token` ends the input behind its first word before `log_event` gets it, so the log has names, not
lines. `cmd_edit` is one of the commands that end with a clear screen; what happens in it is `ShellEditor`.

Left out: `'\r'` (written by the boot animation alone, which ends with a clear screen) and `'\t'` (written by nothing), colours,
the functions that write at a given place (only the boot screen of the text mode uses them), characters that `set_username`
drops, and the cutting of notes, tasks and log entries to their arrays. Space and newline are
constants.

### Timer, Rtc and FrameLoop

`timer_sleep` is cut at its loads of `tick_count` and its `HLT` (`Test`, `Halt`); the timer's interrupt and any other one come between any two
of them. The counter has `WORD` values (2^32) and so has the product in `InTicks`. `elapsed` counts the ticks of a sleep for the properties. A
tick is longer than one step of the thread (`slow`): the code between two accesses takes far less than 10 ms.

`Rtc` has the clock with its update flag: an update is announced, runs, and ends with the next second; while it runs each register reads as old
or new. `rtc_read_time` is one step per access: the wait for the flag, seven registers, the last of which is status B, and
the conversion. The registers hold what `Register` says: two decimal digits or a number, 24 hours or 12 with a PM bit.

`FrameLoop` runs both in turn, as the desktop does: the task bar reads the clock, then the frame sleeps.

Left out: the programming of the PIT, `timer_ticks` and `timer_seconds`, and the century register, which the code does not read.

### Boot

The thread is `KernelMain`, a sequence of calls, and inside it `Dialogue`, the commands and answers of `mouse_install`; one step is
one command or one answer. A byte is the set of its bits. The 8042 has a command byte, one output buffer and a last byte (`latch`);
its answer to command 0x20 and the mouse's acknowledgements arrive when they arrive. The polling bound of
`mouse_read` is the choice in `ReadBounded`: a byte comes, or the wait ends and 0 is returned, also although the answer is on its
way (at most `MaxLate` times). The user may strike keys and move the mouse at any time (`MaxUnasked`). The history variable `quiet` says that no answer
was late and that nothing came before the kernel listened (`Listening`): the boot is over, and so are the interrupts of bytes that `mouse_install` has read by itself.
After that keys and packets come at any moment, between the bytes of a packet and while a request waits too, and `KeyboardSurvives`, `MouseInStep` and `KeysArrive` still have to hold.

The two 8259 have masks, requests and services by line, with the cascade; `irq_handler` runs the handler of the
vector and `EndOfInterrupt`, from the vector number as the code does. Before `pic_remap`, or without a gate, an
interrupt would be a fault (`faulted`).

Left out: exceptions (`isr_handler` prints and stops), spurious interrupts, the boot screens between the installations (they touch nothing shared), and that
the firmware may leave the keyboard's interrupt off, with which no keyboard would work.

### Framebuffer and Windows

`Framebuffer` has memory as a function from byte offsets to colours, so that the pitch, the bytes of a pixel and the choice of the back
buffer matter: a pixel stored in the wrong row is seen in the wrong place. Rectangles are clipped with `Clipped`, one axis at a time; lines go
the code's way from point to point, error term included. `fb_present` copies each row of the back buffer to its place on the screen.

`Windows` turns the loop of `gui_start_pixel`: keys (what each does to windows and focus; `Desktop` has the rest), one report of the mouse,
`draw_pixel_desktop`, `fb_present`. The code's lengths are constants. `FitSize` and `FitPlace` are the limits of `fit_window` in its order.
A click is found by the code's rectangles in the code's order: Start button, item of the open menu, icon, window on top with its close button
and title bar. `frame` remembers what the frame on the screen was drawn from.

Left out: what is inside a window and its text, which may run past the window's edge; what is drawn on the desktop before anything else, namely the gradient, two lines
across it, the title and the icons (the desktop has one colour, and an icon can be hit but is not in the frame); the buttons of the task bar, which are drawn and not
tested; `fb_rect` and the font, which are made of the rectangles and pixels that are here; the mixing of colours; the wrap of the product
in `fb_select_backbuffer` at sizes no mode has. The pointer is the two long sides of its arrow;
its filling and its tail, which lie in the rectangle behind the tip, are left out, and `FrameShown` says nothing of that rectangle but of its tip. Without a back buffer drawing is on the screen and is
seen as it happens; the model draws in one step there too.

## 3. Runs

| Run | Instance | States | Shows |
|---|---|---|---|
| `keyboard_decoder` | 7 keys, ring of 2, 2 bytes in flight | 1.2 M | `NoStuckModifier` |
| `keyboard_ring` | 2 keys, ring of 4, all four readers | 226 k | `TypeOK`, `SlotIsOldest`, `RefinesKeyQueue`, `GetkeyReturns` |
| `mouse` | 2x1 screen, 2 packets, 3 bytes in flight, `MaxPoll` 4, `MaxEvents` 7 | 1.3 M | `TypeOK`, `ReportedInBounds`, `PollingTracksMouse`, `PollingReportsPresses` |
| `desktop` | 5 windows, 3 menu items, 2 folders, 1 file, lost edges | 680 k | `TypeOK`, `FocusOnOpenWindow`, `TabReachesEveryWindow`, `MenuEndsWithWindowChange` |
| `code_studio` | 2 files, 3 names, one cut to another, 3 lines of 1 character, view of 2 by 1 | 141 k | `TypeOK`, `CursorShown`, `RefinesFileList` |
| `shell_editor` | 2 files, 4 names, one cut to another, 2 lines of 2 characters, view of 1 by 2 | 81 k | `TypeOK`, `CursorInView`, `SavedIsStored`, `RefinesNotePad` |
| `shell` | screen of 3 by 3, lines of 3, names of 2, history and log of 2, 2 todos, 1 note | 2.2 M | `TypeOK`, `LineShown`, `LogNamesHistory`, `RefinesTodoList` |
| `frame_loop` | a counter of 8 values, sleeps of 1 to 3 ticks and one whose product wraps, 6 times, 4 formats | 788 k | `FrameTypeOK`, `SleepsItsTicks`, `TimeIsClock`, `FramesGoOn` |
| `boot` | 2 command bytes, with and without mouse and framebuffer, 1 late answer, 3 uninvited bytes or packets | 42 k | `BootTypeOK`, `HandlersReady`, `KeyboardSurvives`, `MouseInStep`, `BootEnds`, `RequestsServed`, `KeysArrive` |
| `screen` | 3 modes of up to 13x10, 3 windows, 9 places of the mouse, 4 keys or reports | 102 k | `TypeOK`, `OnScreen`, `FrameShown`, `PressGoesToSeen`, `DragFollows` |
| `mouse_packet` | as `mouse` | violated | the parser stores a fourth byte |
| `code_studio_f8` | as `code_studio` | violated | F8 closes over a text that no file of that name holds |

Why the bounds are enough. The ring of 4 wraps, fills (three keys) and drops while
the thread is between any two of its accesses; larger rings are covered by the
theorems. The decoder's state depends on modifier keys only, and all five are there with
one letter, one two-byte key and every order of press, repeat and release. The
mouse's two packets contain a press and a release, motion to both ends of both
axes, bytes that pass and that fail the test of a first byte, and overflow bits. Three
bytes in flight are one packet, so a second one is sent while the first is
being parsed. `MaxPoll` 4 lets the loop end by its bound inside a packet and between two. With `irq12Works`,
`MaxEvents` 7 allows two packets and a key, or a packet and four keys, enough to run the handler at every
step of the thread's parse, up to a whole packet between two of its accesses; only polling alone is unbounded in time. The desktop's windows are
interchangeable but for Explorer, Console, Code Studio and Settings, which are all
there with one more; folders have different lengths; the storage holds one file and there are two names.
`MCDesktop.cfg` leaves out F4, F5, F7 and DELETE, which do what F2 and BACKSPACE do.

For the editors the limits are what matters: lines full and empty, a file at its last line, two lines that
fit into one and two that do not (with the byte that ends them), a cursor off the view on each side, a storage
with one name too many, a file removed in front of, behind and under the edited one, a name stored under another. Each
happens at these sizes. The two editors are checked at different ones: three lines
for shifts of lines and rows, two characters for shifts in a line and columns. One character value is enough, because no branch looks
at which one it is; an error in the order of characters would need two and is excluded by
`BackspaceUndoesChar` and the lemmas on `Spliced`, which are about any characters.
`shell_editor` uses symmetry over two names that no constant tells apart.

On the shell's screen of 3 by 3 a prompt and a line take up to six cells, so that wrap, scroll under a line being typed, and erasing
over the ends of rows all happen, from every column. History and log have two entries and three lines can be entered with names that are commands
and one that is not, so both drop entries, and at different times. `FitAssumption`, that a prompt and a full line fit above the last row, holds
for the real 80 by 25 screen with lines of 160 and names of 16; without it Backspace could not reach what has scrolled away.
`LogAssumption` is 12 <= 16 in the code.

Sleeps begin at each of the counter's 8 values, so that they end before, at and behind its last; a tick falls before, between and behind each test and `HLT`. `TimeIsClock` has midnight
with the turn of a year, the ends of February in a leap year and not, both sides of noon and midnight, and numbers that look
different in binary and in decimal digits; the theorems have every time.

The boot's two command bytes leave the mouse disabled and enabled. Three uninvited bytes or packets and one late answer are one event
too many at each point of the dialogue and others on top of it, and after the boot a key between two bytes of a packet and while another key's request waits. The bytes are chosen so that wrong ones are believable: the data bytes of
the packet have the bit of a first byte, and codes of keys share bits with command bytes.

On the screens of `screen` windows overlap, are cut off by the menu's shadow and the edges, lie beyond a screen that is narrower and lower than a window may be
(6 by 7), and the back buffer is used with rows of the same and of another length and not at all (a mode too large for it). Four
events are enough to open, drag, release and click, or to drag and press ESC. The lengths keep their order in the code, but not their ratios; the theorems on
`Fit` and the drag are for any.

The desktop's configuration and the shell's have `CHECK_DEADLOCK FALSE` because `system_reboot` and
`system_halt` do not return, and the screen's because its events are bounded.

### Fairness

`Keyboard!FairSpec`: the processor executes the thread's next instruction
(`WF` on `ThreadStep`); a byte in the 8042 is eventually read, because IRQ1 stays asserted and
the handler runs between two instructions (`WF` on `KeyboardIrq`); the PIT
interrupts for ever (`WF` on `TimerIrq`). Nobody has to press a key or to call the driver.
`PS2Mouse!FairSpec` has `WF` on the thread only: neither device nor handler has to
do anything.

`FrameLoop!FrameFairSpec`: the thread goes on, the timer interrupts for ever, and an announced update of the clock ends (the chip promises
that within 2 ms). `Boot!BootFairSpec`: the thread goes on; what the 8042 and the mouse have begun to send arrives; and a request that passes the masks
again and again is served (`SF`, since a higher one may come between), because the handlers take far less time than lies between two
interrupts of one line. Nobody has to strike a key. The other modules state no liveness and assume no fairness.

### Where the code departs from its documentation

Two runs show a violation:

- `mouse_packet`: IRQ12 and polling are described as a fallback of one for the other; both run, on
  one packet, and a fourth byte overwrites what follows it.
- `code_studio_f8`: the console's help says that F8 saves and closes. After `rm` of an earlier file the editor
  works on another slot than the one its file has moved to, and F8 says "Saved and closed.".

Smaller departures, which the models have as they are and which the properties therefore exclude or allow by name:

- The comment in `mouse_poll` says not to steal keyboard bytes. The status is read with interrupts enabled before the port, and the handler
  does not test for the auxiliary device: each can take a byte of the keyboard.
- The Help window gives F7 both as "save" in Code Studio and as a hotkey of GPUx. The hotkey is tested first, and nothing is saved.
- A click that begins and ends between two reports, on a title bar, starts a drag with the button up; it lasts until the next press and release.
- An edge that the handler records between the copy and the reset in `mouse_get_state` (`mouse.c`, 136 to 145) is lost.
- A lost mouse byte puts the parser out of step until a first byte without bit 3 comes (`mouse.c`, 55).
- A sleep whose end wraps ends at once; one that ends at the counter's last value may miss it and last for the 497 days of
  a turn (`FramesGoOn` excludes it).
- 12 PM is read as 0 and 12 AM as 12 on a clock of 12 hours (`TimeIsClock` excludes both).
- If the answer to command 0x20 comes late, or a key before it, `mouse_install` writes a command byte made of something else, and the keyboard may
  never interrupt again (`quiet` in `KeyboardSurvives`; the reason for it is in section 2, Boot).
- Icons are hit-tested before windows, also where a window covers them. A press between the items of the open menu closes it and goes
  to what is under it. ESC during a drag closes the window, which goes on following the mouse, unseen.
- File names are cut to 27 characters when stored and compared in full when looked up (`gui.c`, 167): `Cut` in `CodeStudio`.
- `ls` puts all names into one line of 132 bytes (`gui.c`, 255), and a row of the shell's editor may reach the last column, where the terminal wraps
  (`shell.c`, 841). Neither is modelled.

### What no property covers

- The wires lose nothing: `NoStuckModifier` is about codes that are mixed up, not about a code that is missed, with which a flag stays until its key is used again.
- `PollingTracksMouse` and `PollingReportsPresses` are about polling alone. Where IRQ12 works too, handler and thread take bytes from one another, as `mouse_packet` shows;
  then only types, bounds and the reported place are claimed.
- `TimeIsClock` leaves out an update between two reads, with which the code returns a time that never was, and the hours 0 and 12 of a 12-hour clock.
- That a full storage brings no window up is in `CodeStudio` (`code_open_file` leaves `open` alone), and no property asks for it; nor that a drag ends.

`PROJECT.json` says the same at each hazard concerned.

## 4. Proofs

Each theorem holds for every value of the constants that satisfies the named
assumptions of its module (`SizeAssumption`, `TablesAssumption`, ... ), which TLC
evaluates in the runs.

- `KeyboardProofs`: `TypeCorrect`; `SlotIsOldestAlways`; `Refinement`; `NoModifierIsStuck`. `TypeOK` is inductive.
  `CallbackPuts` reduces the handler to "puts at most one key", and `PutAppends`,
  `AdvanceTakes` say what that and the reader do to `Contents`, from arithmetic on
  ring positions (`ModRing`, `RingDistance`, `PositionInRing`). `StepEffect` puts them together: each step
  of the driver is a `Put`, `Drop` or `Take` of `KeyQueue` or changes nothing of it.
  `SlotIsOldest` is inductive with `TypeOK`. `NoModifierIsStuck` needs `WillClear`, which speaks of the bytes on their way: for each modifier none of whose
  keys is held, a break code comes with no make code behind it, or the flag is clear and no make code comes; and every prefix is followed by a code (`Paired`). The latter needs that no
  key has the code 96, whose break code would be the prefix (`PhysicalKeysAssumption`).
- `PS2MouseProofs`: `TypeCorrect` needs `CycleOK`: `g_cycle` is 3 only between the thread's
  increment and its reset, so a loaded index is one of the array's. `ReportedInBoundsAlways`
  needs `OnScreen`: which bound of which coordinate may be violated at each step of the
  thread's move, and that the handler's own complete move restores all of them or
  changes nothing. That is why the race on `g_x` and `g_y` never shows, whatever packets the deltas of one move are from.
  `PollingAlwaysTracks` needs `InStep`, on a machine where IRQ12 does not arrive: only a byte of the keyboard has its request pending, so
  none of the mouse's is taken between the thread's look at the status and its read (`OwnBytes`); the bytes still to be taken, in the buffer and behind
  it, complete the packet begun and go on in whole packets (`InPackets`); and once they are read the button is the one last sent (`Says`).
  `PacketSent`, `ByteTaken` and `PacketTaken` keep the last two. That a packet's first byte has bit 3 is `PacketsAssumption`.
- `DesktopProofs`: `TypeCorrect`, one lemma per handler; `FocusAlways` from what
  `open_app`, `close_app` and `cycle_active` do to the focus, the last with `LeastNumber`
  (a non-empty set of table positions has a least one); `MenuEnds` from the effect of each step. `TabAlwaysReaches`: counted round
  the table, each TAB goes nearer to a window that is open and not reached yet (`TabGoesNearer`), so a window is met after as many TABs as it is away.
  `AfterTabsDef` and the theorem are inductions on the number of TABs, done with `Steps`.
- `TextLinesProofs`: `KeysKeepLimits`, one case per key, characters included, from `CharInserted`, `CharDeleted`, `LineSplit` and
  `LinesJoined`, which all rest on `Splicing` (a sequence with a part replaced); `BackspaceUndoesChar`, from
  `TakenOut` and `CharTakenOut`. `Clamped` and `ScrolledToCursor` say what the two editors do after a key. `KeyChangesOneCharacter` is about the text as one
  string: `FlatUpTo` says where each line lies in it, `CharPlace` and `CharLess` what it means for a sequence to have one character more or less at a
  place, and `CharInFlat`, `CharOutFlat`, `SplitFlat` and `JoinFlat` are the four kinds of change, the last two at the newline between two lines.
- `CodeStudioProofs`: `TypeCorrect`, because every key works on a clamped cursor, even over a slot behind the
  last file; `CursorShownAlways`, an invariant, from `ClampInArrays`. `ListImplemented` maps the slots below `edit_file_count` to the list of files, and `stale` to what
  the list no longer promises. `PlacesOfName` and `FirstOfName` say that `ram_file_find` returns the list's first file of a name, `FileAdded` and
  `FileRemoved` are the allocation of a slot and the shift of the slots behind a removed one, and a key is `KeyChangesOneCharacter` in the slot it
  works on, or in none of the list's when that slot is behind the last file; while the index is not stale that slot is the opened file's.
- `ShellEditorProofs`: `TypeCorrect`, `CursorInViewAlways` and `SavedIsStoredAlways` from one invariant. The
  last needs that the name in the title needs no more cutting: otherwise a save would store under another name than
  the next lookup asks for. `SaveStores` says where a save puts the text, with `FirstMatch` for
  the lookup, and `CleanMeansUnchanged` that no key changes the text and leaves the flag off. `NotePadImplemented` adds that no name is in the
  table twice (`Distinct`), which `SaveStep` keeps because a save looks its name up first: without it `rm` would bring an older text of that name back.
  `FileReplaced`, `FileAppended` and `FileDeleted` say what the table's changes are to the store, a function from names to pages. `NamesAssumption` has `NoName` apart from all texts,
  because the note pad has it for the page that is not there.

- `ShellProofs`: `TypeCorrect` and `LineShownAlways` from one invariant. `CharPut`, `LineEnded` and `CharErased` say what the terminal's
  functions do to cells and cursor, wrap and scroll included; `PutShows` and `EraseShows` turn that into "the text before the cursor is longer or shorter by
  one character". The invariant needs `BlankBehind`, because erasing over the end of a row must leave nothing behind, and that a full line fits
  (`AskedFits`), because otherwise its beginning scrolls away. `TodoRefinement` maps the two arrays to a list of tasks, one case per command (`TodoStep`).
  `LogNamesHistoryAlways` needs that every command gets into both lists in one step: `CommandsLater` and `CommandsCount` say how many commands stand behind a place of the history
  when a line is pushed and the oldest dropped, and `LogStep` compares that with the log, which is never the shorter one (`LogAssumption`).

- `KernelProofs`, windows: `FitOnScreen`, `FitTwice` from `SizeFits`, `PlaceFits` and `PlaceNearest`, one axis each. `OnScreenAlways` needs
  `ReachableOnceDrawn`: after the first frame every open window is fitted and stays so through keys, reports and drags; before it the table of the source counts,
  which no mode need have room for. `DragAlwaysFollows` says that the drag's place is the nearest within the margins. `ClippedIsCut` and `PixelsApart`
  are facts on the memory: clipping is the intersection, and two pixels never share a byte.
  `FrameAlwaysShown` goes up layer by layer: `Pitches` and `OffsetsDiffer` (each pixel has an address of its own, in both memories), `StoreAt`, `FillAt`, `LineMarks`
  (what a side of the pointer changes, from `LineIs`, by which the error term makes an upright or diagonal line exact), `WindowsAt` (of the windows at a pixel the one drawn last),
  `DrawingAt` (the whole frame, pixel by pixel) and `PresentAt` (the copy by rows). The invariant `Whole` says that the frame drawn is whole while it
  waits to be presented, and the one presented until the next. `PressAlwaysGoesToSeen` puts `Whole` and `Settled` (a window that has been drawn is fitted, so that the next
  frame moves nothing) together: `SeenIsFound` says that the order of the hit test and that of drawing agree at every place.
- `KernelProofs`, time: `FrameTypeCorrect` includes that the clock's days exist (`Calendar`). `SleepsAlwaysTicks` needs `Slept`, which relates the
  counter, the start and the ticks counted through wraps and HLTs. `TimeAlwaysClock` needs `ReadSoFar`: what has been read is the register of
  the clock, until an update begins; `DigitsBack`, `RawBack` and `HourBack` say that the conversion undoes the format.
- `KernelProofs`, boot: `BootTypeCorrect` from `Machine`. `HandlersAlwaysReady` needs `InOrder`, what is there after each call of
  `kernel_main`. `KeyboardAlwaysSurvives` and `MouseAlwaysInStep` need `Undisturbed`, which says what is in the 8042, on its way to it and requested of the 8259 at each
  point of the dialogue (`Asking`) and while interrupts are served after it (`Serving`). `ListeningIsQuiet` gets "no request but that of the byte in the buffer" from the moment
  at which the user may begin, and `ServiceEnds` that each handler leaves no line in service. That the answers to commands are
  no codes of keys is part of `BootAssumption`.

Every invariant, action property and refinement of the passing runs is a theorem.

Only model-checked is liveness under fairness: `GetkeyReturns`, `PollingReportsPresses`, `FramesGoOn`, `BootEnds`, `RequestsServed` and `KeysArrive`.
Fairness is about when actions are enabled, which the prover cannot unfold. The library's induction theorems are out of its reach too: where a proof needs an
induction, over the TABs, the lines of a text, the points of a line or the windows of a frame, it takes the least counterexample instead
(`WFMin` of the library, which speaks of sets).

## 5. Plan

Modelled: both input drivers, interrupts, timer, clock and boot, the desktop's control and its screen, the two editors, and the text
shell on its terminal. What is left, in this order:

1. On `Terminal`: the screen of the shell's editor (a row that reaches the last column), and the line editor of the text fallback.
2. `Console`: notes, todos, log and history of `gui.c`, as lists.
3. `Boot` composed with `Keyboard` and `PS2Mouse` on one 8042: today `Boot` has the handlers as far as they touch the buffer.
4. `UefiPointer`: three pointer sources and one button.
5. Proofs: of what the items above add; and that the clock's conversion and the addresses of pixels keep to 32 bits in every mode of a
   real machine, which the models take from unbounded integers.

There are twelve runs, and a thirteenth would make the whole slow to check: a new part shares a run with one it interacts with
(fallback and editor screen with the shell), or takes the place of a run that shows a settled violation.

### Not modelled

The font and the contents of windows; PCI and CPUID detection, whose results are only shown; the register stubs in
`interrupt.S`; `string.c` and `kprintf.c`, pure functions whose callers are modelled by what they get;
the UEFI application, a program of its own, of which only the merge of pointer sources is planned; the build.

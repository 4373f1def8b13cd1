------------------------------ MODULE Keyboard ------------------------------
(***************************************************************************)
(* src/keyboard.c: the IRQ1 handler decodes scan codes into key codes and  *)
(* puts them in a ring; the kernel's only thread takes them out.           *)
(*                                                                         *)
(* Every gate of the IDT is an interrupt gate and there is one processor,  *)
(* so the handler is one step.  The thread runs with interrupts enabled,   *)
(* so it makes one access to the shared ring at a time and the handler may *)
(* run between any two of them.  The keyboard and the timer interrupt that *)
(* ends a HLT are the environment.                                         *)
(***************************************************************************)
EXTENDS Naturals, Sequences

CONSTANTS
  KBD_BUFFER_SIZE,        \* slots of the ring
  scancode_ascii,         \* character of each scan code, 0 where there is none
  scancode_shift_ascii,   \* the same with Shift down
  PhysicalKeys,           \* the keys of the keyboard: <<sent after 0xE0?, scan code>>
  Calls,                  \* the driver functions the thread calls
  MaxWire                 \* bound: bytes the keyboard may have waiting in the 8042

KEY_NONE == 0
KEY_CTRL_C == 3
NavigationKeys == 1001..1007
FunctionKeys == 1101..1112
CharKeys == 1..127

\* What callers of the driver can be given.
KeyCode == CharKeys \cup NavigationKeys \cup FunctionKeys

TryCalls == {"trygetkey", "trygetchar"}
BlockingCalls == {"getkey", "getchar"}
CancelCalls == {"cancel_requested", "clear_cancel"}

ASSUME SizeAssumption == KBD_BUFFER_SIZE \in Nat \ {0, 1}

ASSUME TablesAssumption ==
  /\ scancode_ascii \in [0..127 -> 0..127]
  /\ scancode_shift_ascii \in [0..127 -> 0..127]

ASSUME CallsAssumption ==
  Calls \subseteq TryCalls \cup BlockingCalls \cup CancelCalls

\* No key has the code 96: its break code would be the prefix of the two-byte codes.
ASSUME PhysicalKeysAssumption ==
  PhysicalKeys \subseteq BOOLEAN \X (0..127 \ {96})

VARIABLES
  held,            \* the physical keys that are down
  wire,            \* bytes sent and not yet read from port 0x60, oldest first
  buffer, head, tail,
  ctrl_c_pending, shift_down, ctrl_down, caps_lock, extended,
  pc,              \* where the thread is in the driver ("idle": outside it)
  call,            \* the driver function it is in
  key,             \* the caller's local that trygetkey fills (KEY_NONE: dead)
  ret,             \* the key most recently returned by trygetkey
  overflow         \* history: whether buffer_put has dropped a key

device == <<held, wire>>
ring == <<buffer, head, tail>>
decoder == <<ctrl_c_pending, shift_down, ctrl_down, caps_lock, extended>>
thread == <<pc, call, key, ret>>
vars == <<device, ring, decoder, thread, overflow>>

-----------------------------------------------------------------------------
(* The keyboard.                                                           *)

Prefix == 224          \* 0xE0
BreakBit == 128
LeftShift == 42
RightShift == 54
Ctrl == 29
CapsLock == 58

SendBytes(k, breakbit) ==
  LET code == <<k[2] + breakbit>>
      bytes == IF k[1] THEN <<Prefix>> \o code ELSE code
  IN  /\ Len(wire) + Len(bytes) <= MaxWire
      /\ wire' = wire \o bytes

\* A key goes down, or repeats while it is down.
Press(k) ==
  /\ SendBytes(k, 0)
  /\ held' = held \cup {k}
  /\ UNCHANGED <<ring, decoder, thread, overflow>>

Release(k) ==
  /\ k \in held
  /\ SendBytes(k, BreakBit)
  /\ held' = held \ {k}
  /\ UNCHANGED <<ring, decoder, thread, overflow>>

-----------------------------------------------------------------------------
(* The interrupt handler.                                                  *)

\* Defective variant: the index does not wrap.
SuccessorNoWrap(i) == i + 1
Successor(i) == (i + 1) % KBD_BUFFER_SIZE

\* Defective variant: a full ring is not noticed.
buffer_put_Overwrites(k) ==
  /\ buffer' = [buffer EXCEPT ![head] = k]
  /\ head' = Successor(head)
  /\ UNCHANGED overflow

buffer_put(k) ==
  \/ /\ Successor(head) # tail
     /\ buffer' = [buffer EXCEPT ![head] = k]
     /\ head' = Successor(head)
     /\ UNCHANGED overflow
  \/ /\ Successor(head) = tail
     /\ overflow' = TRUE
     /\ UNCHANGED <<buffer, head>>

map_extended_key(sc) ==
  CASE sc = 72 -> 1001 [] sc = 80 -> 1002 [] sc = 75 -> 1003 [] sc = 77 -> 1004
    [] sc = 71 -> 1005 [] sc = 79 -> 1006 [] sc = 83 -> 1007 [] OTHER -> KEY_NONE

map_function_key(sc) ==
  CASE sc \in 59..68 -> 1101 + (sc - 59)
    [] sc \in 87..88 -> 1111 + (sc - 87)
    [] OTHER -> KEY_NONE

Lower == 97..122
Upper == 65..90

flip_case(c) ==
  CASE c \in Lower -> c - 32 [] c \in Upper -> c + 32 [] OTHER -> c

\* The character of a make code under the modifiers, 0 if it has none.
Character(sc) ==
  LET c == IF shift_down THEN scancode_shift_ascii[sc] ELSE scancode_ascii[sc]
  IN  IF caps_lock THEN flip_case(c) ELSE c

\* Nothing but the modifier state changes.
NoKeyPut == UNCHANGED <<buffer, head, overflow, ctrl_c_pending>>

PrefixByte ==
  /\ extended' = TRUE
  /\ NoKeyPut
  /\ UNCHANGED <<shift_down, ctrl_down, caps_lock>>

\* Defective variant: the release of the right Shift is not decoded.
BreakCodeKeepsRightShift(released) ==
  /\ shift_down' = (shift_down /\ released # LeftShift)
  /\ ctrl_down' = (ctrl_down /\ released # Ctrl)
  /\ extended' = FALSE
  /\ NoKeyPut
  /\ UNCHANGED caps_lock

BreakCode(released) ==
  /\ shift_down' = (shift_down /\ released \notin {LeftShift, RightShift})
  /\ ctrl_down' = (ctrl_down /\ released # Ctrl)
  /\ extended' = FALSE
  /\ NoKeyPut
  /\ UNCHANGED caps_lock

ExtendedMake(sc) ==
  LET k == map_extended_key(sc)
  IN  /\ extended' = FALSE
      /\ IF k = KEY_NONE THEN UNCHANGED <<buffer, head, overflow>> ELSE buffer_put(k)
      /\ UNCHANGED <<shift_down, ctrl_down, caps_lock, ctrl_c_pending>>

ModifierMake(sc) ==
  /\ shift_down' = (shift_down \/ sc \in {LeftShift, RightShift})
  /\ ctrl_down' = (ctrl_down \/ sc = Ctrl)
  /\ caps_lock' = IF sc = CapsLock THEN ~caps_lock ELSE caps_lock
  /\ NoKeyPut
  /\ UNCHANGED extended

\* A function key, a character, or Ctrl+C.
KeyMake(sc) ==
  LET f == map_function_key(sc)
      c == Character(sc)
      isCtrlC == ctrl_down /\ c \in {67, 99}
  IN  /\ IF f # KEY_NONE
         THEN buffer_put(f) /\ UNCHANGED ctrl_c_pending
         ELSE IF c = 0 THEN UNCHANGED <<buffer, head, overflow, ctrl_c_pending>>
         ELSE IF isCtrlC THEN buffer_put(KEY_CTRL_C) /\ ctrl_c_pending' = TRUE
         ELSE buffer_put(c) /\ UNCHANGED ctrl_c_pending
      /\ UNCHANGED <<shift_down, ctrl_down, caps_lock, extended>>

Modifiers == {LeftShift, RightShift, Ctrl, CapsLock}

keyboard_callback(sc) ==
  \/ sc = Prefix /\ PrefixByte
  \/ sc # Prefix /\ sc >= BreakBit /\ BreakCode(sc - BreakBit)
  \/ sc < BreakBit /\ extended /\ ExtendedMake(sc)
  \/ sc < BreakBit /\ ~extended /\ sc \in Modifiers /\ ModifierMake(sc)
  \/ sc < BreakBit /\ ~extended /\ sc \notin Modifiers /\ KeyMake(sc)

\* An interrupt ends a HLT; the thread goes back to its loop's test.
Wake == pc' = IF pc = "halted" THEN "check" ELSE pc

KeyboardIrq ==
  /\ wire # << >>
  /\ keyboard_callback(Head(wire))
  /\ wire' = Tail(wire)
  /\ Wake
  /\ UNCHANGED <<held, tail, call, key, ret>>

\* Defective variant: the timer does not interrupt.
TimerIrqMasked == pc = "halted" /\ UNCHANGED vars

\* The timer's interrupt, where it makes a difference to this thread.
TimerIrq ==
  /\ pc = "halted"
  /\ Wake
  /\ UNCHANGED <<device, ring, decoder, call, key, ret, overflow>>

-----------------------------------------------------------------------------
(* The thread.                                                             *)

Goto(from, to) == pc = from /\ pc' = to /\ UNCHANGED call

\* Back to the caller of the driver.
Return == pc' = "idle" /\ call' = "none"

Call(c) ==
  /\ pc = "idle"
  /\ call' = c
  /\ pc' = CASE c = "cancel_requested" -> "cancel"
             [] c = "clear_cancel" -> "clear"
             [] OTHER -> "check"
  /\ UNCHANGED <<device, ring, decoder, key, ret, overflow>>

\* head == tail: the try calls return 0, the blocking ones go on to HLT.
CheckEmpty ==
  /\ pc = "check"
  /\ head = tail
  /\ IF call \in TryCalls THEN Return ELSE pc' = "hlt" /\ UNCHANGED call
  /\ UNCHANGED <<device, ring, decoder, key, ret, overflow>>

CheckNonEmpty ==
  /\ head # tail
  /\ Goto("check", "read")
  /\ UNCHANGED <<device, ring, decoder, key, ret, overflow>>

ReadSlot ==
  /\ Goto("read", "advance")
  /\ key' = buffer[tail]
  /\ UNCHANGED <<device, ring, decoder, ret, overflow>>

\* Defective variant: taking one key empties the ring.
AdvanceDropsOthers ==
  /\ pc = "advance"
  /\ tail' = head
  /\ ret' = key
  /\ key' = KEY_NONE
  /\ Return
  /\ UNCHANGED <<device, buffer, head, decoder, overflow>>

\* trygetkey returns 1.  keyboard_getchar drops a key that is no character
\* and goes round again; keyboard_trygetchar drops it and returns 0.
AdvanceTail ==
  /\ pc = "advance"
  /\ tail' = Successor(tail)
  /\ ret' = key
  /\ key' = KEY_NONE
  /\ IF call = "getchar" /\ key > 255 THEN pc' = "check" /\ UNCHANGED call ELSE Return
  /\ UNCHANGED <<device, buffer, head, decoder, overflow>>

Halt ==
  /\ Goto("hlt", "halted")
  /\ UNCHANGED <<device, ring, decoder, key, ret, overflow>>

\* keyboard_cancel_requested: test, then clear.
CancelTest ==
  /\ pc = "cancel"
  /\ IF ctrl_c_pending THEN pc' = "clear" /\ UNCHANGED call ELSE Return
  /\ UNCHANGED <<device, ring, decoder, key, ret, overflow>>

ClearPending ==
  /\ pc = "clear"
  /\ Return
  /\ ctrl_c_pending' = FALSE
  /\ UNCHANGED <<device, ring, shift_down, ctrl_down, caps_lock, extended>>
  /\ UNCHANGED <<key, ret, overflow>>

ThreadStep ==
  CheckEmpty \/ CheckNonEmpty \/ ReadSlot \/ AdvanceTail \/ Halt
    \/ CancelTest \/ ClearPending

-----------------------------------------------------------------------------
\* keyboard_install has flushed the ring and enable_interrupts has run.
Init ==
  /\ held = {}
  /\ wire = << >>
  /\ buffer = [i \in 0..KBD_BUFFER_SIZE-1 |-> KEY_NONE]
  /\ head = 0 /\ tail = 0
  /\ ctrl_c_pending = FALSE
  /\ shift_down = FALSE /\ ctrl_down = FALSE /\ caps_lock = FALSE
  /\ extended = FALSE
  /\ pc = "idle" /\ call = "none"
  /\ key = KEY_NONE /\ ret = KEY_NONE
  /\ overflow = FALSE

Next ==
  \/ \E k \in PhysicalKeys : Press(k) \/ Release(k)
  \/ KeyboardIrq
  \/ TimerIrq
  \/ \E c \in Calls : Call(c)
  \/ ThreadStep

Spec == Init /\ [][Next]_vars

\* The processor executes the thread's next instruction, the 8042 keeps IRQ1
\* asserted until its byte is read, and the PIT interrupts for ever.
Fairness ==
  /\ WF_vars(ThreadStep)
  /\ WF_vars(KeyboardIrq)
  /\ WF_vars(TimerIrq)

FairSpec == Spec /\ Fairness

-----------------------------------------------------------------------------
Slot == 0..KBD_BUFFER_SIZE-1

\* Every variable of the driver and of its caller has the type its C declaration
\* and its uses give it.
TypeOK ==
  /\ held \subseteq PhysicalKeys
  /\ wire \in Seq(0..255)
  /\ buffer \in [Slot -> KeyCode \cup {KEY_NONE}]
  /\ head \in Slot /\ tail \in Slot
  /\ decoder \in BOOLEAN \X BOOLEAN \X BOOLEAN \X BOOLEAN \X BOOLEAN
  /\ overflow \in BOOLEAN
  /\ pc \in {"idle", "check", "read", "advance", "hlt", "halted", "cancel", "clear"}
  /\ call \in Calls \cup {"none"}
  /\ key \in KeyCode \cup {KEY_NONE}
  /\ ret \in KeyCode \cup {KEY_NONE}

\* The keys in the ring, oldest first.
Count == (head + KBD_BUFFER_SIZE - tail) % KBD_BUFFER_SIZE
Contents == [i \in 1..Count |-> buffer[(tail + i - 1) % KBD_BUFFER_SIZE]]

KQ == INSTANCE KeyQueue WITH
        Key <- KeyCode, Capacity <- KBD_BUFFER_SIZE - 1, NoKey <- KEY_NONE,
        queue <- Contents, got <- ret, overflow <- overflow

\* The ring, filled by the handler between any two accesses of the thread, is a
\* bounded first-in first-out queue: buffer_put and keyboard_trygetkey lose,
\* repeat and reorder nothing, and drop a key only when SIZE-1 keys wait.
RefinesKeyQueue == KQ!Spec

\* Every waiting entry of the ring is a key, and while keyboard_trygetkey is between
\* its test and its update of tail the oldest of them is still there and is the one
\* it read: the handler never reaches the slot the thread is reading.
SlotIsOldest ==
  /\ Contents \in Seq(KeyCode)
  /\ pc \in {"read", "advance"} => Contents # << >>
  /\ pc = "advance" => key = Head(Contents)

\* Once every byte has been read, the decoder expects no second byte of a pair and
\* believes in no modifier that is not held: no key is stuck down after any
\* sequence of presses, repeats and releases, of either Shift or either Ctrl.
NoStuckModifier ==
  wire = << >> =>
    /\ ~extended
    /\ shift_down => {<<FALSE, LeftShift>>, <<FALSE, RightShift>>} \cap held # {}
    /\ ctrl_down => <<FALSE, Ctrl>> \in held

\* keyboard_getkey never sleeps on a key for ever: its test and its HLT are two
\* instructions, a key may arrive between them, and the timer then ends the HLT.
GetkeyReturns ==
  (call = "getkey" /\ head # tail) ~> (call = "none")
=============================================================================

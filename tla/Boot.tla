-------------------------------- MODULE Boot --------------------------------
(***************************************************************************)
(* From the boot loader to the desktop: kernel_main (src/kernel.c), the    *)
(* interrupt descriptors and the two 8259 (src/idt.c), and the dialogue of *)
(* mouse_install with the 8042 (src/mouse.c), all with interrupts off; and *)
(* the interrupts that come when they are switched on.                     *)
(*                                                                         *)
(* A byte is the set of its bits that are 1.  One step of the thread is    *)
(* one command to the 8042 or one answer; the rest of kernel_main touches  *)
(* nothing that others see before the end.  The 8042, its devices and the  *)
(* 8259 are the environment: an answer may come too late, the keyboard may *)
(* send, the mouse may be missing.                                         *)
(***************************************************************************)
EXTENDS Naturals, Sequences, FiniteSets

CONSTANTS
  Commands,    \* the command bytes the firmware may leave in the 8042
  KeyBytes,    \* bytes of the keyboard
  KeyCodes,    \* the make codes for which keyboard_callback has a key
  Packet,      \* the three bytes the mouse sends when it moves
  MaxLate,     \* bound: answers that come after mouse_read has given up
  MaxUnasked    \* bound: bytes of the keyboard, and packets of the mouse

Bytes == SUBSET (0..7)

\* Bits of the command byte, of a packet's first byte and of a scan code.
KBD_INT == 0
AUX_INT == 1
KBD_OFF == 4
AUX_OFF == 5
SYNC == 3
BREAK == 7
ACK == {1, 3, 4, 5, 6, 7}

ASSUME BootAssumption ==
  /\ Commands \subseteq {c \in Bytes : KBD_INT \in c /\ KBD_OFF \notin c}
  /\ KeyBytes \subseteq Bytes
  /\ KeyCodes \subseteq {c \in Bytes : BREAK \notin c}
  /\ \A c \in Commands : {{}, c, c \ {AUX_OFF}} \cap KeyCodes = {}
  /\ Packet \in [1..3 -> Bytes] /\ SYNC \in Packet[1]
  /\ MaxLate \in Nat /\ MaxUnasked \in Nat

\* The interrupt lines in use: timer, keyboard, the second 8259, mouse.
TIMER == 0
KEYBOARD == 1
CASCADE == 2
MOUSE == 12
Lines == {TIMER, KEYBOARD, CASCADE, MOUSE}

VARIABLES
  \* the 8042, the keyboard and the mouse
  command,     \* the command byte
  obuf,        \* the output buffer: << >> or one byte and where it is from
  latch,       \* what port 0x60 reads when the buffer is empty
  answer,      \* the answer to command 0x20 on its way: << >> or a byte
  acks,        \* acknowledgements of the mouse on their way
  mouse,       \* "missing", "off" or "streaming"
  packet,      \* bytes of its packet the mouse has still to send
  \* the two 8259 and the processor
  masked, irr, isr,   \* lines masked, requested and in service
  remapped,    \* whether line 0 has vector 32 rather than 8
  gates,       \* the vectors with a gate
  interrupts,  \* the interrupt flag
  faulted,     \* whether a line has been taken to a vector that is not its own
  \* the kernel
  fb,          \* fb_available
  step,        \* position in KernelMain
  exchange,    \* position in mouse_install
  status,      \* its local variable
  handlers,    \* interrupt_handlers
  g_cycle, g_present,
  keys,        \* the scan codes of keys that were put into the ring
  \* for checking only
  struck,      \* the scan codes the keyboard has sent
  late, unasked, \* how much of the bounds is spent
  quiet        \* no answer was late; no key or packet came before the kernel listened

controller == <<command, obuf, latch, answer>>
devices == <<acks, mouse, packet>>
pic == <<masked, irr, isr, remapped>>
processor == <<gates, interrupts, faulted>>
thread == <<fb, step, exchange, status>>
driver == <<handlers, g_cycle, g_present, keys>>
history == <<struck, late, unasked, quiet>>
bootVars == <<controller, devices, pic, processor, thread, driver, history>>

\* Defective variant: the handlers are registered and the table is cleared after.
KernelMainIdtLast ==
  <<"timer_install", "keyboard_install", "mouse_install", "idt_install", "enable_interrupts">>

\* What kernel_main calls, in its order.
KernelMain ==
  <<"idt_install", "timer_install", "keyboard_install", "mouse_install", "enable_interrupts">>

\* The dialogue of mouse_install.
Dialogue ==
  <<"enable", "ask", "read", "write", "defaults", "ack", "stream", "ack", "unmask">>

Booted == step > Len(KernelMain)

BootTypeOK ==
  /\ command \in Bytes /\ latch \in Bytes /\ status \in Bytes
  /\ Len(obuf) <= 1 /\ Len(answer) <= 1
  /\ \A k \in DOMAIN obuf : obuf[k] \in [aux : BOOLEAN, byte : Bytes]
  /\ acks \in 0..2 /\ mouse \in {"missing", "off", "streaming"} /\ packet \in 0..3
  /\ masked \subseteq Lines /\ irr \subseteq Lines /\ isr \subseteq Lines
  /\ remapped \in BOOLEAN /\ gates \subseteq 0..47
  /\ interrupts \in BOOLEAN /\ faulted \in BOOLEAN
  /\ fb \in BOOLEAN /\ step \in 1..6 /\ exchange \in 1..9
  /\ handlers \subseteq {32, 33, 44} /\ g_cycle \in 0..2 /\ g_present \in BOOLEAN
  /\ keys \subseteq Bytes /\ struck \subseteq KeyBytes
  /\ late \in 0..MaxLate /\ unasked \in 0..MaxUnasked /\ quiet \in BOOLEAN

\* The boot loader's machine.  A byte of the keyboard may wait in the buffer.
BootInit ==
  /\ command \in Commands
  /\ obuf = << >> \/ \E b \in KeyBytes : obuf = <<[aux |-> FALSE, byte |-> b]>>
  /\ latch = {} /\ answer = << >> /\ acks = 0
  /\ mouse \in {"missing", "off"} /\ packet = 0
  /\ masked \in {{CASCADE, MOUSE}, {MOUSE}, {}} /\ irr = {} /\ isr = {}
  /\ remapped = FALSE /\ gates = {} /\ interrupts = FALSE /\ faulted = FALSE
  /\ fb \in BOOLEAN /\ step = 1 /\ exchange = 1 /\ status = {}
  /\ handlers = {} /\ g_cycle = 0 /\ g_present = FALSE /\ keys = {}
  /\ struck = {} /\ late = 0 /\ unasked = 0 /\ quiet = (obuf = << >>)

-----------------------------------------------------------------------------
(* The 8042 and its devices.                                               *)

\* A byte in the buffer requests the interrupt that the command byte allows.
Fill(byte, aux) ==
  /\ obuf = << >>
  /\ obuf' = <<[aux |-> aux, byte |-> byte]>>
  /\ irr' = irr \cup (IF aux THEN IF AUX_INT \in command THEN {MOUSE} ELSE {}
                      ELSE IF KBD_INT \in command THEN {KEYBOARD} ELSE {})
  /\ UNCHANGED <<command, latch, masked, isr, remapped, processor, thread, driver>>

\* inb(0x60).
PortByte == IF obuf = << >> THEN latch ELSE obuf[1].byte
ReadPort == latch' = PortByte /\ obuf' = << >>

Above(l) == IF l = MOUSE THEN {TIMER, KEYBOARD, CASCADE, MOUSE} ELSE 0..l

\* The request reaches the processor: no mask and no service of its rank or above.
Passes(l) ==
  /\ l \in irr /\ l \notin masked /\ (l = MOUSE => CASCADE \notin masked)
  /\ Above(l) \cap isr = {}

\* The boot is over, and so are the interrupts of bytes that mouse_install has read:
\* what is requested is for the byte in the buffer.
Listening ==
  /\ Booted
  /\ KEYBOARD \in irr => obuf # << >> /\ ~obuf[1].aux
  /\ MOUSE \in irr => obuf # << >> /\ obuf[1].aux

\* Something the user does, before or after the kernel is ready for it.
Uninvited == unasked < MaxUnasked /\ unasked' = unasked + 1 /\ quiet' = (quiet /\ Listening)

KeyStrikes ==
  /\ Uninvited
  /\ KBD_OFF \notin command
  /\ \E b \in KeyBytes : Fill(b, FALSE) /\ struck' = struck \cup {b}
  /\ UNCHANGED <<answer, devices, late>>

MouseMoves ==
  /\ Uninvited
  /\ mouse = "streaming" /\ packet = 0
  /\ packet' = 3
  /\ UNCHANGED <<controller, acks, mouse, pic, processor, thread, driver, struck, late>>

\* The answer to command 0x20 requests the keyboard's interrupt.
ControllerAnswers ==
  /\ answer # << >>
  /\ Fill(answer[1], FALSE)
  /\ answer' = << >>
  /\ UNCHANGED <<devices, history>>

MouseAcknowledges ==
  /\ acks > 0
  /\ Fill(ACK, TRUE)
  /\ acks' = acks - 1
  /\ UNCHANGED <<answer, mouse, packet, history>>

MouseSends ==
  /\ acks = 0 /\ packet > 0
  /\ Fill(Packet[4 - packet], TRUE)
  /\ packet' = packet - 1
  /\ UNCHANGED <<answer, acks, mouse, history>>

Tick ==
  /\ irr' = irr \cup {TIMER}
  /\ UNCHANGED <<controller, devices, masked, isr, remapped, processor, thread, driver, history>>

-----------------------------------------------------------------------------
(* kernel_main.                                                            *)

Calls(f) == ~Booted /\ KernelMain[step] = f
Return == step' = step + 1 /\ UNCHANGED <<fb, exchange, status>>

\* idt_install and pic_remap: gates for 48 vectors, no handlers; ICW1 clears
\* requests and services, and the masks are restored.
idt_install ==
  /\ Calls("idt_install") /\ Return
  /\ gates' = 0..47 /\ handlers' = {}
  /\ remapped' = TRUE /\ irr' = {} /\ isr' = {}
  /\ UNCHANGED <<controller, devices, masked, interrupts, faulted>>
  /\ UNCHANGED <<g_cycle, g_present, keys, history>>

Registers(v) == handlers' = handlers \cup {v} /\ UNCHANGED <<g_cycle, g_present, keys>>

timer_install ==
  /\ Calls("timer_install") /\ Return
  /\ Registers(32)
  /\ UNCHANGED <<controller, devices, pic, processor, history>>

keyboard_install ==
  /\ Calls("keyboard_install") /\ Return
  /\ Registers(33)
  /\ UNCHANGED <<controller, devices, pic, processor, history>>

\* if (fb_available()) mouse_install();
NoMouseInstall ==
  /\ Calls("mouse_install") /\ ~fb /\ Return
  /\ UNCHANGED <<controller, devices, pic, processor, driver, history>>

enable_interrupts ==
  /\ Calls("enable_interrupts") /\ Return
  /\ interrupts' = TRUE
  /\ UNCHANGED <<controller, devices, pic, gates, faulted, driver, history>>

-----------------------------------------------------------------------------
(* mouse_install, with interrupts off.                                     *)

At(what) == Calls("mouse_install") /\ fb /\ Dialogue[exchange] = what
Go == exchange' = exchange + 1 /\ UNCHANGED <<fb, step>>

\* 0xA8, after the handler is registered.
EnableAux ==
  /\ At("enable") /\ Go
  /\ Registers(44)
  /\ command' = command \ {AUX_OFF}
  /\ UNCHANGED <<obuf, latch, answer, devices, pic, processor, status, history>>

\* 0x20.
AskCommandByte ==
  /\ At("ask") /\ Go
  /\ answer' = <<command>>
  /\ UNCHANGED <<command, obuf, latch, devices, pic, processor, status, driver, history>>

\* mouse_read takes any byte that comes, or 0 when it has polled long enough.
ReadsByte ==
  /\ obuf # << >>
  /\ ReadPort
  /\ status' = IF At("read") THEN PortByte ELSE status
  /\ UNCHANGED <<late, quiet>>

Due == answer # << >> \/ acks > 0
GivesUp ==
  /\ obuf = << >>
  /\ status' = IF At("read") THEN {} ELSE status
  /\ IF Due THEN late < MaxLate /\ late' = late + 1 /\ quiet' = FALSE
            ELSE UNCHANGED <<late, quiet>>
  /\ UNCHANGED <<obuf, latch>>

\* Defective variant: the port is read at once.
ReadAtOnce ==
  /\ ReadPort
  /\ status' = IF At("read") THEN PortByte ELSE status
  /\ UNCHANGED <<late, quiet>>

\* Defective variant: the answer is waited for as long as it takes.
ReadUnbounded == ReadsByte

ReadBounded == ReadsByte \/ GivesUp

mouse_read ==
  /\ At("read") \/ At("ack")
  /\ Go
  /\ ReadBounded
  /\ UNCHANGED <<command, answer, devices, pic, processor, driver, struck, unasked>>

\* Defective variant: the byte is written anew.
WithAuxAlone(b) == {AUX_INT}

WithAux(b) == (b \cup {AUX_INT}) \ {AUX_OFF}

\* 0x60.
WriteCommandByte ==
  /\ At("write") /\ Go
  /\ command' = WithAux(status)
  /\ UNCHANGED <<obuf, latch, answer, devices, pic, processor, status, driver, history>>

\* 0xF6 and 0xF4 for the mouse, which acknowledges them if it is there.
MouseCommand(what, then) ==
  /\ At(what) /\ Go
  /\ IF mouse = "missing" THEN UNCHANGED devices
     ELSE acks' = acks + 1 /\ mouse' = then /\ UNCHANGED packet
  /\ UNCHANGED <<controller, pic, processor, status, driver, history>>
SetDefaults == MouseCommand("defaults", "off")
EnableStreaming == MouseCommand("stream", "streaming")

Unmask ==
  /\ At("unmask")
  /\ Return
  /\ masked' = masked \ {CASCADE, MOUSE}
  /\ g_present' = TRUE
  /\ UNCHANGED <<controller, devices, irr, isr, remapped, processor, handlers, g_cycle, keys, history>>

mouse_install ==
  \/ EnableAux \/ AskCommandByte \/ mouse_read \/ WriteCommandByte
  \/ SetDefaults \/ EnableStreaming \/ Unmask

BootStep ==
  \/ idt_install \/ timer_install \/ keyboard_install
  \/ NoMouseInstall \/ mouse_install \/ enable_interrupts

-----------------------------------------------------------------------------
(* Interrupts.                                                             *)

\* keyboard_callback: a byte with an entry in its tables puts a key.  The answer
\* of the 8042 to command 0x20 may be what it reads; that byte has no entry.
keyboard_callback ==
  /\ ReadPort
  /\ keys' = IF PortByte \in KeyCodes THEN keys \cup {PortByte} ELSE keys
  /\ UNCHANGED g_cycle

\* Defective variant: the third byte does not start over.
CycleAfterNoReset(byte) == IF g_cycle = 0 /\ SYNC \notin byte THEN 0 ELSE g_cycle + 1

\* mouse_process_byte: a packet starts with a byte that has the sync bit.
CycleAfter(byte) == IF g_cycle = 0 /\ SYNC \notin byte THEN 0 ELSE (g_cycle + 1) % 3

mouse_callback ==
  /\ IF obuf = << >> THEN UNCHANGED <<obuf, latch, g_cycle>>
     ELSE ReadPort /\ g_cycle' = CycleAfter(PortByte)
  /\ UNCHANGED keys

\* interrupt_handlers[n](regs), if there is one; timer_callback counts a tick.
Handler(n) ==
  IF n \in handlers \ {32}
  THEN CASE n = 33 -> keyboard_callback [] n = 44 -> mouse_callback
  ELSE UNCHANGED <<obuf, latch, keys, g_cycle>>

Highest(S) == CHOOSE l \in S : \A k \in S : l <= k

\* 0x20 to port 0x20 ends the first 8259's highest service, to 0xA0 the second's.
EndMaster(s) == IF s \subseteq {MOUSE} THEN s ELSE s \ {Highest(s \ {MOUSE})}
EndSlave(s) == s \ {MOUSE}

\* Defective variant: only the first 8259 is told.
EndOfInterruptMasterOnly(n, s) == EndMaster(s)

EndOfInterrupt(n, s) == EndMaster(IF n >= 40 THEN EndSlave(s) ELSE s)

\* The processor takes the highest request; irq_handler runs, with interrupts off.
irq_handler(l) ==
  LET n == l + IF remapped THEN 32 ELSE 8
  IN /\ interrupts /\ ~faulted
     /\ Passes(l) /\ \A k \in Lines : Passes(k) => l <= k
     /\ faulted' = (~remapped \/ n \notin gates)
     /\ irr' = irr \ {l}
     /\ Handler(n)
     /\ isr' = EndOfInterrupt(n, isr \cup {l} \cup IF l = MOUSE THEN {CASCADE} ELSE {})
     /\ UNCHANGED <<command, answer, devices, masked, remapped, gates, interrupts>>
     /\ UNCHANGED <<thread, handlers, g_present, history>>

-----------------------------------------------------------------------------
DeviceStep ==
  \/ KeyStrikes \/ MouseMoves \/ ControllerAnswers
  \/ MouseAcknowledges \/ MouseSends \/ Tick

BootNext == DeviceStep \/ BootStep \/ \E l \in Lines : irq_handler(l)

BootSpec == BootInit /\ [][BootNext]_bootVars

\* The processor runs, and what was sent arrives.  A request that passes is served,
\* since the handlers of those above it take less time than lies between two of them.
BootFairSpec ==
  /\ BootSpec
  /\ WF_bootVars(BootStep) /\ \A l \in Lines : SF_bootVars(irq_handler(l))
  /\ WF_bootVars(ControllerAnswers) /\ WF_bootVars(MouseAcknowledges) /\ WF_bootVars(MouseSends)

-----------------------------------------------------------------------------
(* Properties.                                                             *)

\* Whatever comes or stays away during the boot, no interrupt is taken to a vector
\* that is not its own, every handler is there, and the mouse can interrupt.
HandlersReady ==
  /\ ~faulted
  /\ Booted => handlers = {32, 33} \cup (IF fb THEN {44} ELSE {})
  /\ (Booted /\ fb) =>
       /\ g_present /\ AUX_INT \in command /\ AUX_OFF \notin command
       /\ masked \cap {CASCADE, MOUSE} = {}

\* A boot during which no answer is late and nothing comes that nobody asked for
\* leaves the keyboard as it was, though mouse_install writes the command byte it
\* shares with the mouse: it can interrupt, and no key is there that nobody typed.
\* Keys and packets may come as soon as the interrupts of the bytes that
\* mouse_install has read are done, at idle moments or not.
KeyboardSurvives ==
  (Booted /\ quiet) => KBD_INT \in command /\ KBD_OFF \notin command /\ keys \subseteq struck

\* After such a boot the parser keeps step with the packets.
MouseInStep ==
  (Booted /\ quiet /\ fb) =>
    LET inBuffer == IF obuf # << >> /\ obuf[1].aux THEN 1 ELSE 0
    IN (g_cycle + inBuffer) % 3 = (3 - packet) % 3

\* The boot ends, also without a mouse: no answer is waited for without bound.
BootEnds == <>Booted

\* Every request that is not masked is served, again and again: each handler
\* ends the service at both 8259.
RequestsServed ==
  \A l \in Lines : (Booted /\ l \in irr) ~> (l \notin irr \/ l \in masked)

\* After such a boot a key that is typed reaches the ring.
KeysArrive ==
  \A b \in KeyBytes \cap KeyCodes : (Booted /\ quiet /\ b \in struck) ~> (b \in keys)
=============================================================================

------------------------------ MODULE PS2Mouse ------------------------------
(***************************************************************************)
(* src/mouse.c: three-byte PS/2 packets become a pointer position, button  *)
(* state and button edges.  Two executions parse them with the same        *)
(* variables: the IRQ12 handler, and the desktop's thread, which polls the *)
(* 8042 on every mouse_get_state.                                          *)
(*                                                                         *)
(* The handler is one step (interrupt gate, one processor).  The thread    *)
(* runs with interrupts enabled and one step of it is one access to what   *)
(* it shares with the handler or with the 8042.  The 8042, the two         *)
(* interrupt requests and the devices are the environment.                 *)
(***************************************************************************)
EXTENDS Integers, Sequences

CONSTANTS
  Width, Height,   \* the framebuffer: g_w and g_h
  Packets,         \* the packets the mouse may send, each of three bytes
  KeyByte,         \* a byte of the keyboard
  MaxPoll,         \* bytes mouse_poll takes at most (32)
  MaxBytes,        \* bound: mouse bytes sent and not yet in the 8042
  MaxEvents        \* bound: bytes of packets and keys sent where IRQ12 works

ASSUME BoundsAssumption == Width \in Nat \ {0} /\ Height \in Nat \ {0}

ASSUME BytesAssumption ==
  /\ KeyByte \in 0..255
  /\ Packets \subseteq (0..255) \X (0..255) \X (0..255)

ASSUME PollAssumption == MaxPoll \in Nat /\ MaxBytes \in Nat /\ MaxEvents \in Nat

VARIABLES
  \* the 8042 and the devices
  fromMouse,     \* mouse bytes on their way, oldest first
  fromKeyboard,  \* whether a keyboard byte is on its way
  obuf,          \* the output buffer: << >> or one byte and where it is from
  latch,         \* what port 0x60 reads when the buffer is empty
  irr1, irr12,   \* pending requests of the interrupt controller
  irq12Works,    \* whether IRQ12 reaches the processor on this machine
  sent,          \* history: left button in the last packet sent
  events,        \* how much of MaxEvents is spent
  \* the driver
  g_x, g_y, g_buttons, g_left_pressed, g_left_released,
  g_packet, g_cycle, g_present,
  \* the thread, in mouse_get_state and the functions it calls
  pc, i, data, tmp, dx, dy, old, out

device == <<fromMouse, fromKeyboard, obuf, latch, irr1, irr12>>
machine == <<irq12Works, sent, events>>
parser == <<g_packet, g_cycle, g_present>>
position == <<g_x, g_y>>
buttons == <<g_buttons, g_left_pressed, g_left_released>>
locals == <<data, tmp, dx, dy, old>>
vars == <<device, machine, parser, position, buttons, pc, i, locals, out>>

Bit(b, n) == (b \div 2^n) % 2 = 1
Signed(b) == IF b < 128 THEN b ELSE b - 256
Left(b) == b % 2

\* The first byte of a packet has bit 3 (its data bytes may have it too).
ASSUME PacketsAssumption == \A p \in Packets : Bit(p[1], 3)

-----------------------------------------------------------------------------
(* The 8042.                                                               *)

\* With the handler running against the thread only so much happens.
Spend(bytes) ==
  IF irq12Works
  THEN events + bytes <= MaxEvents /\ events' = events + bytes
  ELSE UNCHANGED events

MouseMoves ==
  /\ Spend(3)
  /\ Len(fromMouse) + 3 <= MaxBytes
  /\ \E p \in Packets : fromMouse' = fromMouse \o p /\ sent' = Left(p[1])
  /\ UNCHANGED <<fromKeyboard, obuf, latch, irr1, irr12, irq12Works>>
  /\ UNCHANGED <<parser, position, buttons, pc, i, locals, out>>

KeyStrikes ==
  /\ Spend(1)
  /\ ~fromKeyboard
  /\ fromKeyboard' = TRUE
  /\ UNCHANGED <<fromMouse, obuf, latch, irr1, irr12, irq12Works, sent>>
  /\ UNCHANGED <<parser, position, buttons, pc, i, locals, out>>

LoadMouseByte ==
  /\ obuf = << >> /\ fromMouse # << >>
  /\ obuf' = <<[aux |-> TRUE, byte |-> Head(fromMouse)]>>
  /\ fromMouse' = Tail(fromMouse)
  /\ irr12' = TRUE
  /\ UNCHANGED <<fromKeyboard, latch, irr1, machine>>
  /\ UNCHANGED <<parser, position, buttons, pc, i, locals, out>>

LoadKeyByte ==
  /\ obuf = << >> /\ fromKeyboard
  /\ obuf' = <<[aux |-> FALSE, byte |-> KeyByte]>>
  /\ fromKeyboard' = FALSE
  /\ irr1' = TRUE
  /\ UNCHANGED <<fromMouse, latch, irr12, machine>>
  /\ UNCHANGED <<parser, position, buttons, pc, i, locals, out>>

\* inb(0x60): empties the output buffer; an empty one reads as its last byte.
PortByte == IF obuf = << >> THEN latch ELSE obuf[1].byte
ReadPort == latch' = PortByte /\ obuf' = << >>

-----------------------------------------------------------------------------
(* The interrupt handlers.                                                 *)

\* keyboard_callback reads the port without a look at the status.
KeyboardIrq ==
  /\ irr1
  /\ irr1' = FALSE
  /\ ReadPort
  /\ UNCHANGED <<fromMouse, fromKeyboard, irr12, machine>>
  /\ UNCHANGED <<parser, position, buttons, pc, i, locals, out>>

DeltaX(p) == IF Bit(p[0], 6) THEN 0 ELSE Signed(p[1])
DeltaY(p) == IF Bit(p[0], 7) THEN 0 ELSE Signed(p[2])

\* Defective variant: the last column and row are one too far.
ClampOffByOne(v, n) == IF v < 0 THEN 0 ELSE IF v > n THEN n - 1 ELSE v

Clamp(v, n) == IF v < 0 THEN 0 ELSE IF v >= n THEN n - 1 ELSE v

\* g_packet[g_cycle] = byte.  What the build puts behind the three bytes of the
\* array is g_present.
StoreAt(n, byte) ==
  IF n <= 2
  THEN g_packet' = [g_packet EXCEPT ![n] = byte] /\ UNCHANGED g_present
  ELSE g_present' = byte /\ UNCHANGED g_packet

SetEdges(was, now) ==
  /\ g_left_pressed' = IF now = 1 /\ was = 0 THEN 1 ELSE g_left_pressed
  /\ g_left_released' = IF now = 0 /\ was = 1 THEN 1 ELSE g_left_released

Move(mx, my) ==
  IF mx = 0 /\ my = 0
  THEN UNCHANGED position
  ELSE g_x' = Clamp(g_x + mx, Width) /\ g_y' = Clamp(g_y - my, Height)

\* mouse_process_byte run by the handler, from first line to last.
mouse_process_byte(byte) ==
  \/ /\ g_cycle = 0 /\ ~Bit(byte, 3)
     /\ UNCHANGED <<parser, position, buttons>>
  \/ /\ g_cycle # 0 \/ Bit(byte, 3)
     /\ g_cycle < 2
     /\ StoreAt(g_cycle, byte)
     /\ g_cycle' = g_cycle + 1
     /\ UNCHANGED <<position, buttons>>
  \/ /\ g_cycle >= 2
     /\ StoreAt(g_cycle, byte)
     /\ g_cycle' = 0
     /\ Move(DeltaX(g_packet'), DeltaY(g_packet'))
     /\ g_buttons' = Left(g_packet'[0])
     /\ SetEdges(g_buttons, Left(g_packet'[0]))

\* mouse_callback.  The controller gives IRQ1 priority over IRQ12.
MouseIrq ==
  /\ irq12Works /\ irr12 /\ ~irr1
  /\ irr12' = FALSE
  /\ \/ /\ obuf = << >>
        /\ UNCHANGED <<obuf, latch, parser, position, buttons>>
     \/ /\ obuf # << >>
        /\ ReadPort
        /\ mouse_process_byte(PortByte)
  /\ UNCHANGED <<fromMouse, fromKeyboard, irr1, machine, pc, i, locals, out>>

-----------------------------------------------------------------------------
(* The thread: mouse_get_state.                                            *)

Goto(from, to) == pc = from /\ pc' = to
\* What a step leaves alone when it works on its locals only.
DriverIdle == UNCHANGED <<device, machine, parser, position, buttons>>

Nothing == [x |-> 0, y |-> 0, buttons |-> 0, left_pressed |-> 0, left_released |-> 0]

\* mouse_get_state is called with a fresh structure; mouse_poll does nothing
\* unless g_present.
GetState ==
  /\ pc = "idle"
  /\ pc' = IF g_present = 0 THEN "copy_x" ELSE "status"
  /\ i' = 0
  /\ out' = Nothing
  /\ DriverIdle /\ UNCHANGED locals

\* Defective variant: the loop ends only with the bytes.
TurnUnbounded == pc' = "status" /\ UNCHANGED i
\* The next turn of mouse_poll's loop, or its end.
Turn ==
  IF i + 1 < MaxPoll THEN pc' = "status" /\ i' = i + 1 ELSE pc' = "copy_x" /\ i' = 0

\* Defective variant: a byte of the keyboard is as good.
StatusIgnoresAux ==
  /\ pc = "status"
  /\ IF obuf # << >>
     THEN pc' = "data" /\ UNCHANGED i
     ELSE pc' = "copy_x" /\ i' = 0
  /\ DriverIdle /\ UNCHANGED <<locals, out>>

\* inb(0x64): go on only if there is a byte and the mouse sent it.
Status ==
  /\ pc = "status"
  /\ IF obuf # << >> /\ obuf[1].aux
     THEN pc' = "data" /\ UNCHANGED i
     ELSE pc' = "copy_x" /\ i' = 0
  /\ DriverIdle /\ UNCHANGED <<locals, out>>

Data ==
  /\ Goto("data", "sync")
  /\ data' = PortByte
  /\ ReadPort
  /\ UNCHANGED <<fromMouse, fromKeyboard, irr1, irr12, machine>>
  /\ UNCHANGED <<parser, position, buttons, i, tmp, dx, dy, old, out>>

Sync ==
  /\ pc = "sync"
  /\ IF g_cycle = 0 /\ ~Bit(data, 3)
     THEN Turn /\ data' = 0
     ELSE pc' = "index" /\ UNCHANGED <<i, data>>
  /\ DriverIdle /\ UNCHANGED <<tmp, dx, dy, old, out>>

\* g_packet[g_cycle++] = data is a load of g_cycle, a store to it and a store to
\* g_packet, in this order.
Index ==
  /\ Goto("index", "increment")
  /\ tmp' = g_cycle
  /\ DriverIdle /\ UNCHANGED <<i, data, dx, dy, old, out>>

Increment ==
  /\ Goto("increment", "store")
  /\ g_cycle' = tmp + 1
  /\ UNCHANGED <<device, machine, g_packet, g_present, position, buttons>>
  /\ UNCHANGED <<i, locals, out>>

Store ==
  /\ Goto("store", "full")
  /\ StoreAt(tmp, data)
  /\ tmp' = 0 /\ data' = 0
  /\ UNCHANGED <<device, machine, g_cycle, position, buttons, i, dx, dy, old, out>>

Full ==
  /\ pc = "full"
  /\ IF g_cycle < 3 THEN Turn ELSE pc' = "reset" /\ UNCHANGED i
  /\ DriverIdle /\ UNCHANGED <<locals, out>>

\* Defective variant: the next packet goes behind this one.
ResetForgotten ==
  /\ Goto("reset", "delta_x")
  /\ UNCHANGED <<device, machine, parser, position, buttons, i, locals, out>>

Reset ==
  /\ Goto("reset", "delta_x")
  /\ g_cycle' = 0
  /\ UNCHANGED <<device, machine, g_packet, g_present, position, buttons>>
  /\ UNCHANGED <<i, locals, out>>

\* dx and dy are the second and third byte, or 0 by the overflow bits of the first.
DeltaOfX ==
  /\ Goto("delta_x", "delta_y")
  /\ dx' = Signed(g_packet[1])
  /\ DriverIdle /\ UNCHANGED <<i, data, tmp, dy, old, out>>

DeltaOfY ==
  /\ Goto("delta_y", "overflow_x")
  /\ dy' = Signed(g_packet[2])
  /\ DriverIdle /\ UNCHANGED <<i, data, tmp, dx, old, out>>

OverflowX ==
  /\ Goto("overflow_x", "overflow_y")
  /\ dx' = IF Bit(g_packet[0], 6) THEN 0 ELSE dx
  /\ DriverIdle /\ UNCHANGED <<i, data, tmp, dy, old, out>>

OverflowY ==
  /\ Goto("overflow_y", "old")
  /\ dy' = IF Bit(g_packet[0], 7) THEN 0 ELSE dy
  /\ DriverIdle /\ UNCHANGED <<i, data, tmp, dx, old, out>>

Old ==
  /\ Goto("old", "now")
  /\ old' = g_buttons
  /\ DriverIdle /\ UNCHANGED <<i, data, tmp, dx, dy, out>>

Now ==
  /\ Goto("now", "buttons")
  /\ tmp' = Left(g_packet[0])
  /\ DriverIdle /\ UNCHANGED <<i, data, dx, dy, old, out>>

Buttons ==
  /\ Goto("buttons", "edges")
  /\ g_buttons' = tmp
  /\ UNCHANGED <<device, machine, parser, position, g_left_pressed, g_left_released>>
  /\ UNCHANGED <<i, locals, out>>

\* At most one of the two edges is stored; a packet that does not move ends here.
Edges ==
  /\ pc = "edges"
  /\ SetEdges(old, tmp)
  /\ old' = 0 /\ tmp' = 0
  /\ IF dx = 0 /\ dy = 0 THEN Turn ELSE pc' = "load_x" /\ UNCHANGED i
  /\ UNCHANGED <<device, machine, parser, position, g_buttons, data, dx, dy, out>>

\* g_x += dx and g_y -= dy, each a load and a store.
LoadX ==
  /\ Goto("load_x", "store_x")
  /\ tmp' = g_x + dx /\ dx' = 0
  /\ DriverIdle /\ UNCHANGED <<i, data, dy, old, out>>

StoreX ==
  /\ Goto("store_x", "load_y")
  /\ g_x' = tmp /\ tmp' = 0
  /\ UNCHANGED <<device, machine, parser, g_y, buttons, i, data, dx, dy, old, out>>

LoadY ==
  /\ Goto("load_y", "store_y")
  /\ tmp' = g_y - dy /\ dy' = 0
  /\ DriverIdle /\ UNCHANGED <<i, data, dx, old, out>>

StoreY ==
  /\ Goto("store_y", "low_x")
  /\ g_y' = tmp /\ tmp' = 0
  /\ UNCHANGED <<device, machine, parser, g_x, buttons, i, data, dx, dy, old, out>>

\* clamp_mouse, four tests each followed by its own store.
Test(at, wrong, set, next) ==
  /\ pc = at
  /\ pc' = IF wrong THEN set ELSE next
  /\ DriverIdle /\ UNCHANGED <<i, locals, out>>

SetX(at, value, next) ==
  /\ Goto(at, next)
  /\ g_x' = value
  /\ UNCHANGED <<device, machine, parser, g_y, buttons, i, locals, out>>

SetY(at, value, next) ==
  /\ Goto(at, next)
  /\ g_y' = value
  /\ UNCHANGED <<device, machine, parser, g_x, buttons, i, locals, out>>

clamp_mouse ==
  \/ Test("low_x", g_x < 0, "set_low_x", "low_y")
  \/ SetX("set_low_x", 0, "low_y")
  \/ Test("low_y", g_y < 0, "set_low_y", "high_x")
  \/ SetY("set_low_y", 0, "high_x")
  \/ Test("high_x", g_x >= Width, "set_high_x", "high_y")
  \/ SetX("set_high_x", Width - 1, "high_y")
  \/ Test("high_y", g_y >= Height, "set_high_y", "moved")
  \/ SetY("set_high_y", Height - 1, "moved")

Moved ==
  /\ pc = "moved" /\ Turn
  /\ DriverIdle /\ UNCHANGED <<locals, out>>

\* The copies of mouse_get_state, then its resets.
CopyX ==
  /\ Goto("copy_x", "copy_y")
  /\ out' = [out EXCEPT !.x = g_x]
  /\ DriverIdle /\ UNCHANGED <<i, locals>>

CopyY ==
  /\ Goto("copy_y", "copy_buttons")
  /\ out' = [out EXCEPT !.y = g_y]
  /\ DriverIdle /\ UNCHANGED <<i, locals>>

CopyButtons ==
  /\ Goto("copy_buttons", "copy_pressed")
  /\ out' = [out EXCEPT !.buttons = g_buttons]
  /\ DriverIdle /\ UNCHANGED <<i, locals>>

CopyPressed ==
  /\ Goto("copy_pressed", "copy_released")
  /\ out' = [out EXCEPT !.left_pressed = g_left_pressed]
  /\ DriverIdle /\ UNCHANGED <<i, locals>>

CopyReleased ==
  /\ Goto("copy_released", "clear_pressed")
  /\ out' = [out EXCEPT !.left_released = g_left_released]
  /\ DriverIdle /\ UNCHANGED <<i, locals>>

ClearPressed ==
  /\ Goto("clear_pressed", "clear_released")
  /\ g_left_pressed' = 0
  /\ UNCHANGED <<device, machine, parser, position, g_buttons, g_left_released>>
  /\ UNCHANGED <<i, locals, out>>

ClearReleased ==
  /\ Goto("clear_released", "idle")
  /\ g_left_released' = 0
  /\ UNCHANGED <<device, machine, parser, position, g_buttons, g_left_pressed>>
  /\ UNCHANGED <<i, locals, out>>

ThreadStep ==
  GetState \/ Status \/ Data \/ Sync \/ Index \/ Increment \/ Store \/ Full \/ Reset
    \/ DeltaOfX \/ DeltaOfY \/ OverflowX \/ OverflowY \/ Old \/ Now \/ Buttons \/ Edges
    \/ LoadX \/ StoreX \/ LoadY \/ StoreY \/ clamp_mouse \/ Moved
    \/ CopyX \/ CopyY \/ CopyButtons \/ CopyPressed \/ CopyReleased
    \/ ClearPressed \/ ClearReleased

-----------------------------------------------------------------------------
\* mouse_install has put the pointer in the middle and set g_present.
Init ==
  /\ fromMouse = << >> /\ fromKeyboard = FALSE
  /\ obuf = << >> /\ latch = 0
  /\ irr1 = FALSE /\ irr12 = FALSE
  /\ irq12Works \in BOOLEAN
  /\ sent = 0 /\ events = 0
  /\ g_x = Width \div 2 /\ g_y = Height \div 2
  /\ g_buttons = 0 /\ g_left_pressed = 0 /\ g_left_released = 0
  /\ g_packet = [n \in 0..2 |-> 0] /\ g_cycle = 0 /\ g_present = 1
  /\ pc = "idle" /\ i = 0
  /\ data = 0 /\ tmp = 0 /\ dx = 0 /\ dy = 0 /\ old = 0
  /\ out = Nothing

Next ==
  \/ MouseMoves \/ KeyStrikes \/ LoadMouseByte \/ LoadKeyByte
  \/ KeyboardIrq \/ MouseIrq
  \/ ThreadStep

Spec == Init /\ [][Next]_vars

\* Only the thread's progress is assumed: the processor executes instructions.
FairSpec == Spec /\ WF_vars(ThreadStep)

-----------------------------------------------------------------------------
\* Where the thread may be.
Control == {"idle", "status", "data", "sync", "index", "increment", "store", "full", "reset",
   "delta_x", "delta_y", "overflow_x", "overflow_y", "old", "now", "buttons", "edges",
   "load_x", "store_x", "load_y", "store_y",
   "low_x", "set_low_x", "low_y", "set_low_y", "high_x", "set_high_x",
   "high_y", "set_high_y", "moved", "copy_x", "copy_y", "copy_buttons",
   "copy_pressed", "copy_released", "clear_pressed", "clear_released"}

\* Every variable of the driver and of its caller has the type its C declaration
\* and its uses give it; only g_present is what the handler may overwrite it with.
TypeOK ==
  /\ fromMouse \in Seq(0..255) /\ fromKeyboard \in BOOLEAN
  /\ obuf = << >> \/ obuf \in {<<b>> : b \in [aux : BOOLEAN, byte : 0..255]}
  /\ latch \in 0..255
  /\ {irr1, irr12, irq12Works} \subseteq BOOLEAN
  /\ sent \in 0..1 /\ events \in 0..MaxEvents
  /\ g_x \in Int /\ g_y \in Int
  /\ {g_buttons, g_left_pressed, g_left_released} \subseteq 0..1
  /\ g_packet \in [0..2 -> 0..255]
  /\ g_cycle \in 0..3
  /\ g_present \in 0..255
  /\ pc \in Control
  /\ i \in 0..MaxPoll
  /\ data \in 0..255 /\ tmp \in Int /\ old \in 0..1
  /\ dx \in -128..127 /\ dy \in -128..127
  /\ out \in [x : Int, y : Int, buttons : 0..1, left_pressed : 0..1, left_released : 0..1]

\* What mouse_get_state reports is on the screen, although the thread and the
\* handler move and clamp the same g_x and g_y, the handler between any two steps
\* of the thread: the desktop draws the cursor at it and tests windows against it.
ReportedInBounds ==
  out.x \in 0..Width-1 /\ out.y \in 0..Height-1

\* With polling alone the driver stays in step with the mouse, however keyboard
\* bytes come between the bytes of a packet: when the mouse has been heard out
\* the next byte starts a packet and the button state is the one it last sent.
PollingTracksMouse ==
  (~irq12Works /\ pc = "idle" /\ fromMouse = << >> /\ (obuf = << >> \/ ~obuf[1].aux))
    => g_cycle = 0 /\ g_buttons = sent

\* With polling alone a press is reported to the desktop, however fast the mouse
\* sends: mouse_poll ends, and nothing clears the edge before it is copied.
PollingReportsPresses ==
  (~irq12Works /\ g_left_pressed = 1) ~> (out.left_pressed = 1)

\* The parser's packet has three bytes: nothing is stored behind g_packet, where
\* this build keeps the g_present flag that mouse_install set.
PacketFitsArray == g_present = 1
=============================================================================

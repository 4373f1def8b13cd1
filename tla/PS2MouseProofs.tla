--------------------------- MODULE PS2MouseProofs ---------------------------
(***************************************************************************)
(* Theorems about PS2Mouse, for every size of the screen, every mouse and  *)
(* every interleaving of the thread with the handler.                      *)
(***************************************************************************)
EXTENDS PS2Mouse, SequenceTheorems, TLAPS

Byte == 0..255
Bits == 0..1
Columns == 0..Width-1
Rows == 0..Height-1

-----------------------------------------------------------------------------
(* The operators the driver is built from.                                 *)

\* A coordinate is clamped to the screen.
LEMMA ClampInBounds ==
  ASSUME NEW v \in Int, NEW n \in Nat \ {0}
  PROVE  Clamp(v, n) \in 0..n-1
  BY DEF Clamp

\* What a packet of bytes says.
LEMMA PacketTypes ==
  ASSUME NEW p \in [0..2 -> Byte]
  PROVE  /\ DeltaX(p) \in -128..127 /\ DeltaY(p) \in -128..127
         /\ Signed(p[1]) \in -128..127 /\ Signed(p[2]) \in -128..127
         /\ Left(p[0]) \in Bits
<1>1. \A b \in Byte : Signed(b) \in -128..127 /\ Left(b) \in Bits
  BY DEF Signed, Left, Byte, Bits
<1>2. p[0] \in Byte /\ p[1] \in Byte /\ p[2] \in Byte
  OBVIOUS
<1>. QED BY <1>1, <1>2 DEF DeltaX, DeltaY

\* Port 0x60 reads as a byte.
LEMMA PortTypes ==
  ASSUME TypeOK
  PROVE  PortByte \in Byte
<1>1. CASE obuf = << >>
  BY <1>1 DEF TypeOK, PortByte, Byte
<1>2. CASE obuf # << >>
  <2>1. PICK b \in [aux : BOOLEAN, byte : Byte] : obuf = <<b>>
    BY <1>2 DEF TypeOK, Byte
  <2>. QED BY <1>2, <2>1 DEF PortByte
<1>. QED BY <1>1, <1>2

\* A packet of the mouse is a sequence of bytes.
LEMMA PacketBytes ==
  ASSUME NEW p \in Packets
  PROVE  p \in Seq(Byte) /\ p[1] \in Byte
<1>1. p \in Byte \X Byte \X Byte
  BY BytesAssumption DEF Byte
<1>2. PICK a \in Byte, b \in Byte, c \in Byte : p = <<a, b, c>>
  BY <1>1
<1>. QED BY <1>2

\* A store keeps the types of the packet and of what is behind it.
LEMMA StoreTypes ==
  ASSUME TypeOK, NEW n \in Int, NEW byte \in Byte, n >= 0, StoreAt(n, byte)
  PROVE  g_packet' \in [0..2 -> Byte] /\ g_present' \in Byte
<1>1. g_packet \in [0..2 -> Byte] /\ g_present \in Byte
  BY DEF TypeOK, Byte
<1>2. CASE n <= 2
  <2>1. n \in 0..2 /\ g_packet' = [g_packet EXCEPT ![n] = byte] /\ g_present' = g_present
    BY <1>2 DEF StoreAt
  <2>. QED BY <1>1, <2>1
<1>3. CASE ~(n <= 2)
  <2>1. g_packet' = g_packet /\ g_present' = byte
    BY <1>3 DEF StoreAt
  <2>. QED BY <1>1, <2>1
<1>. QED BY <1>2, <1>3

\* The edges stay bits.
LEMMA EdgeTypes ==
  ASSUME TypeOK, NEW was \in Bits, NEW now \in Bits, SetEdges(was, now)
  PROVE  g_left_pressed' \in Bits /\ g_left_released' \in Bits
  BY DEF TypeOK, SetEdges, Bits

\* A movement of the handler ends on the screen or did not take place.
LEMMA MoveInBounds ==
  ASSUME TypeOK, NEW mx \in Int, NEW my \in Int, Move(mx, my)
  PROVE  \/ UNCHANGED position
         \/ g_x' \in Columns /\ g_y' \in Rows
<1>1. g_x + mx \in Int /\ g_y - my \in Int
  BY DEF TypeOK
<1>. QED BY <1>1, ClampInBounds, BoundsAssumption DEF Move, Columns, Rows

\* The handler's whole work on one byte keeps the types, and its movement ends on
\* the screen.
LEMMA ProcessByteTypes ==
  ASSUME TypeOK, NEW byte \in Byte, mouse_process_byte(byte)
  PROVE  /\ g_packet' \in [0..2 -> Byte] /\ g_present' \in Byte
         /\ g_cycle' \in 0..3
         /\ g_buttons' \in Bits /\ g_left_pressed' \in Bits /\ g_left_released' \in Bits
         /\ UNCHANGED position \/ (g_x' \in Columns /\ g_y' \in Rows)
<1>1. CASE UNCHANGED <<parser, position, buttons>>
  BY <1>1 DEF TypeOK, parser, position, buttons, Byte, Bits
<1>2. CASE /\ g_cycle < 2
           /\ StoreAt(g_cycle, byte)
           /\ g_cycle' = g_cycle + 1
           /\ UNCHANGED <<position, buttons>>
  <2>1. g_cycle \in Int /\ g_cycle >= 0 /\ g_cycle' \in 0..3
    BY <1>2 DEF TypeOK
  <2>2. g_packet' \in [0..2 -> Byte] /\ g_present' \in Byte
    BY <1>2, <2>1, StoreTypes
  <2>. QED BY <1>2, <2>1, <2>2 DEF TypeOK, buttons, Bits
<1>3. CASE /\ g_cycle >= 2
           /\ StoreAt(g_cycle, byte)
           /\ g_cycle' = 0
           /\ Move(DeltaX(g_packet'), DeltaY(g_packet'))
           /\ g_buttons' = Left(g_packet'[0])
           /\ SetEdges(g_buttons, Left(g_packet'[0]))
  <2>1. g_cycle \in Int /\ g_cycle >= 0 /\ g_buttons \in Bits
    BY DEF TypeOK, Bits
  <2>2. g_packet' \in [0..2 -> Byte] /\ g_present' \in Byte
    BY <1>3, <2>1, StoreTypes
  <2>3. /\ DeltaX(g_packet') \in Int /\ DeltaY(g_packet') \in Int
        /\ Left(g_packet'[0]) \in Bits
    BY <2>2, PacketTypes
  <2>4. UNCHANGED position \/ (g_x' \in Columns /\ g_y' \in Rows)
    BY <1>3, <2>3, MoveInBounds
  <2>5. g_buttons' \in Bits /\ g_left_pressed' \in Bits /\ g_left_released' \in Bits
    BY <1>3, <2>1, <2>3, EdgeTypes
  <2>. QED BY <1>3, <2>2, <2>4, <2>5
<1>. QED BY <1>1, <1>2, <1>3 DEF mouse_process_byte

-----------------------------------------------------------------------------
(* Types.                                                                  *)

\* g_cycle is 3 only between the thread's increment and its reset, so an index the
\* thread has loaded is one of g_packet's; a button that it has loaded is a bit.
CycleOK ==
  /\ pc \notin {"store", "full", "reset"} => g_cycle <= 2
  /\ pc \in {"increment", "store"} => tmp \in 0..2
  /\ pc \in {"buttons", "edges"} => tmp \in Bits

\* What a step of the thread that leaves the driver alone keeps.
DriverTypes ==
  /\ fromMouse \in Seq(Byte) /\ fromKeyboard \in BOOLEAN
  /\ obuf = << >> \/ obuf \in {<<b>> : b \in [aux : BOOLEAN, byte : Byte]}
  /\ latch \in Byte
  /\ {irr1, irr12, irq12Works} \subseteq BOOLEAN
  /\ sent \in Bits /\ events \in 0..MaxEvents
  /\ g_x \in Int /\ g_y \in Int
  /\ {g_buttons, g_left_pressed, g_left_released} \subseteq Bits
  /\ g_packet \in [0..2 -> Byte]
  /\ g_cycle \in 0..3
  /\ g_present \in Byte

ThreadTypes ==
  /\ pc \in Control
  /\ i \in 0..MaxPoll
  /\ data \in Byte /\ tmp \in Int /\ old \in Bits
  /\ dx \in -128..127 /\ dy \in -128..127
  /\ out \in [x : Int, y : Int, buttons : Bits, left_pressed : Bits, left_released : Bits]

\* The two halves of the type invariant.
LEMMA TypeParts == TypeOK <=> DriverTypes /\ ThreadTypes
  BY DEF TypeOK, DriverTypes, ThreadTypes, Byte, Bits

\* A step of the devices or of a handler keeps the types.
LEMMA MachineStepTypes ==
  ASSUME TypeOK, CycleOK,
         MouseMoves \/ KeyStrikes \/ LoadMouseByte \/ LoadKeyByte \/ KeyboardIrq \/ MouseIrq
  PROVE  TypeOK' /\ CycleOK'
<1>. USE TypeParts
<1>0. DriverTypes' /\ ThreadTypes' => TypeOK'
  BY DEF TypeOK, DriverTypes, ThreadTypes, Byte, Bits
<1>1. UNCHANGED <<pc, i, locals, out>>
  BY DEF MouseMoves, KeyStrikes, LoadMouseByte, LoadKeyByte, KeyboardIrq, MouseIrq
<1>2. ThreadTypes'
  BY <1>1 DEF ThreadTypes, locals
<1>3. CASE MouseMoves
  <2>1. PICK p \in Packets : fromMouse' = fromMouse \o p /\ sent' = Left(p[1])
    BY <1>3 DEF MouseMoves
  <2>2. p \in Seq(Byte) /\ Left(p[1]) \in Bits
    <3>1. p \in Seq(Byte) /\ p[1] \in Byte
      BY PacketBytes
    <3>2. \A b \in Byte : Left(b) \in Bits
      BY DEF Left, Bits, Byte
    <3>. QED BY <3>1, <3>2
  <2>3. events' \in 0..MaxEvents
    BY <1>3, PollAssumption DEF MouseMoves, Spend, DriverTypes
  <2>4. fromMouse' \in Seq(Byte) /\ sent' \in Bits
    BY <2>1, <2>2 DEF DriverTypes
  <2>5. DriverTypes'
    BY <1>3, <2>3, <2>4 DEF MouseMoves, DriverTypes, parser, position, buttons
  <2>. QED BY <1>0, <1>1, <1>2, <1>3, <2>5 DEF CycleOK, MouseMoves, parser, locals
<1>4. CASE KeyStrikes
  <2>1. events' \in 0..MaxEvents
    BY <1>4, PollAssumption DEF KeyStrikes, Spend, DriverTypes
  <2>2. DriverTypes'
    BY <1>4, <2>1 DEF KeyStrikes, DriverTypes, parser, position, buttons
  <2>. QED BY <1>0, <1>1, <1>2, <1>4, <2>2 DEF CycleOK, KeyStrikes, parser, locals
<1>5. CASE LoadMouseByte
  <2>1. Head(fromMouse) \in Byte /\ Tail(fromMouse) \in Seq(Byte)
    BY <1>5 DEF LoadMouseByte, DriverTypes
  <2>2. [aux |-> TRUE, byte |-> Head(fromMouse)] \in [aux : BOOLEAN, byte : Byte]
    BY <2>1
  <2>3. DriverTypes'
    BY <1>5, <2>1, <2>2 DEF LoadMouseByte, DriverTypes, machine, parser, position, buttons
  <2>. QED BY <1>0, <1>1, <1>2, <1>5, <2>3 DEF CycleOK, LoadMouseByte, parser, locals
<1>6. CASE LoadKeyByte
  <2>1. [aux |-> FALSE, byte |-> KeyByte] \in [aux : BOOLEAN, byte : Byte]
    BY BytesAssumption DEF Byte
  <2>2. DriverTypes'
    BY <1>6, <2>1 DEF LoadKeyByte, DriverTypes, machine, parser, position, buttons
  <2>. QED BY <1>0, <1>1, <1>2, <1>6, <2>2 DEF CycleOK, LoadKeyByte, parser, locals
<1>7. CASE KeyboardIrq
  <2>1. DriverTypes'
    BY <1>7, PortTypes
    DEF KeyboardIrq, ReadPort, DriverTypes, machine, parser, position, buttons
  <2>. QED BY <1>0, <1>1, <1>2, <1>7, <2>1 DEF CycleOK, KeyboardIrq, parser, locals
<1>8. CASE MouseIrq
  <2>1. CASE obuf = << >> /\ UNCHANGED <<obuf, latch, parser, position, buttons>>
    <3>1. DriverTypes'
      BY <1>8, <2>1 DEF MouseIrq, DriverTypes, machine, parser, position, buttons
    <3>. QED BY <1>0, <1>1, <1>2, <2>1, <3>1 DEF CycleOK, parser, locals
  <2>2. CASE obuf # << >> /\ ReadPort /\ mouse_process_byte(PortByte)
    <3>1. /\ g_packet' \in [0..2 -> Byte] /\ g_present' \in Byte
          /\ g_cycle' \in 0..3
          /\ g_buttons' \in Bits /\ g_left_pressed' \in Bits /\ g_left_released' \in Bits
          /\ UNCHANGED position \/ (g_x' \in Columns /\ g_y' \in Rows)
      BY <2>2, PortTypes, ProcessByteTypes
    <3>2. g_x' \in Int /\ g_y' \in Int
      BY <3>1, BoundsAssumption DEF DriverTypes, position, Columns, Rows
    <3>3. DriverTypes'
      BY <1>8, <2>2, <3>1, <3>2, PortTypes DEF MouseIrq, ReadPort, DriverTypes, machine
    <3>4. g_cycle' = g_cycle \/ g_cycle' <= 2
      BY <2>2 DEF mouse_process_byte, parser, DriverTypes
    <3>. QED BY <1>0, <1>1, <1>2, <3>3, <3>4 DEF CycleOK, locals
  <2>. QED BY <1>8, <2>1, <2>2 DEF MouseIrq
<1>. QED BY <1>3, <1>4, <1>5, <1>6, <1>7, <1>8

\* mouse_poll's loop counter stays within the loop's bound.
LEMMA TurnTypes ==
  ASSUME i \in 0..MaxPoll, Turn
  PROVE  pc' \in {"status", "copy_x"} /\ i' \in 0..MaxPoll
  BY PollAssumption DEF Turn

\* A step of the thread that only reads the driver keeps the types.
LEMMA LocalStepTypes ==
  ASSUME TypeOK, CycleOK,
         \/ GetState \/ Status \/ Sync \/ Index \/ Full
         \/ DeltaOfX \/ DeltaOfY \/ OverflowX \/ OverflowY \/ Old \/ Now
         \/ LoadX \/ LoadY \/ Moved
         \/ CopyX \/ CopyY \/ CopyButtons \/ CopyPressed \/ CopyReleased
  PROVE  TypeOK' /\ CycleOK'
<1>. USE TypeParts
<1>0. DriverTypes' /\ ThreadTypes' => TypeOK'
  BY DEF TypeOK, DriverTypes, ThreadTypes, Byte, Bits
<1>1. DriverIdle
  BY DEF GetState, Status, Sync, Index, Full, DeltaOfX, DeltaOfY, OverflowX, OverflowY,
         Old, Now, LoadX, LoadY, Moved, CopyX, CopyY, CopyButtons, CopyPressed, CopyReleased
<1>2. DriverTypes' /\ UNCHANGED g_cycle
  BY <1>1 DEF DriverIdle, DriverTypes, device, machine, parser, position, buttons
<1>3. CASE GetState
  <2>1. ThreadTypes'
    BY <1>3, PollAssumption DEF GetState, ThreadTypes, Nothing, locals, Control, Bits
  <2>. QED BY <1>0, <1>2, <1>3, <2>1 DEF CycleOK, GetState
<1>4. CASE Status
  <2>1. ThreadTypes'
    BY <1>4, PollAssumption DEF Status, ThreadTypes, locals, Control
  <2>. QED BY <1>0, <1>2, <1>4, <2>1 DEF CycleOK, Status
<1>5. CASE Sync
  <2>1. CASE Turn /\ data' = 0
    <3>1. pc' \in {"status", "copy_x"} /\ i' \in 0..MaxPoll
      BY <2>1, TurnTypes DEF ThreadTypes
    <3>2. ThreadTypes'
      BY <1>5, <2>1, <3>1 DEF Sync, ThreadTypes, Control, Byte
    <3>. QED BY <1>0, <1>2, <1>5, <3>1, <3>2 DEF CycleOK, Sync
  <2>2. CASE pc' = "index" /\ UNCHANGED <<i, data>>
    <3>1. ThreadTypes'
      BY <1>5, <2>2 DEF Sync, ThreadTypes, Control
    <3>. QED BY <1>0, <1>2, <1>5, <2>2, <3>1 DEF CycleOK, Sync
  <2>. QED BY <1>5, <2>1, <2>2 DEF Sync
<1>6. CASE Index
  <2>1. ThreadTypes'
    BY <1>6 DEF Index, Goto, ThreadTypes, DriverTypes, Control
  <2>. QED BY <1>0, <1>2, <1>6, <2>1 DEF CycleOK, Index, Goto, DriverTypes
<1>7. CASE Full
  <2>1. CASE g_cycle < 3 /\ Turn
    <3>1. pc' \in {"status", "copy_x"} /\ i' \in 0..MaxPoll
      BY <2>1, TurnTypes DEF ThreadTypes
    <3>2. ThreadTypes'
      BY <1>7, <3>1 DEF Full, ThreadTypes, Control, locals
    <3>. QED BY <1>0, <1>2, <2>1, <3>1, <3>2 DEF CycleOK, DriverTypes
  <2>2. CASE pc' = "reset" /\ UNCHANGED i
    <3>1. ThreadTypes'
      BY <1>7, <2>2 DEF Full, ThreadTypes, Control, locals
    <3>. QED BY <1>0, <1>2, <2>2, <3>1 DEF CycleOK
  <2>. QED BY <1>7, <2>1, <2>2 DEF Full
<1>8. CASE DeltaOfX \/ DeltaOfY
  <2>1. Signed(g_packet[1]) \in -128..127 /\ Signed(g_packet[2]) \in -128..127
    BY PacketTypes DEF DriverTypes
  <2>2. /\ dx' \in -128..127 /\ dy' \in -128..127
        /\ pc' \in {"delta_y", "overflow_x"} /\ UNCHANGED <<i, data, tmp, old, out>>
    BY <1>8, <2>1 DEF DeltaOfX, DeltaOfY, Goto, ThreadTypes
  <2>3. ThreadTypes'
    BY <2>2 DEF ThreadTypes, Control
  <2>4. pc \in {"delta_x", "delta_y"}
    BY <1>8 DEF DeltaOfX, DeltaOfY, Goto
  <2>. QED BY <1>0, <1>2, <2>2, <2>3, <2>4 DEF CycleOK
<1>9. CASE Old
  <2>1. ThreadTypes'
    BY <1>9 DEF Old, Goto, ThreadTypes, DriverTypes, Control
  <2>. QED BY <1>0, <1>2, <1>9, <2>1 DEF CycleOK, Old, Goto
<1>10. CASE LoadX
  <2>1. ThreadTypes'
    <3>1. tmp' \in Int /\ dx' \in -128..127
      BY <1>10 DEF LoadX, ThreadTypes, DriverTypes
    <3>2. UNCHANGED <<i, data, dy, old, out>> /\ pc' \in Control
      BY <1>10 DEF LoadX, Goto, Control
    <3>. QED BY <3>1, <3>2 DEF ThreadTypes
  <2>. QED BY <1>0, <1>2, <1>10, <2>1 DEF CycleOK, LoadX, Goto
<1>11. CASE LoadY
  <2>1. ThreadTypes'
    <3>1. tmp' \in Int /\ dy' \in -128..127
      BY <1>11 DEF LoadY, ThreadTypes, DriverTypes
    <3>2. UNCHANGED <<i, data, dx, old, out>> /\ pc' \in Control
      BY <1>11 DEF LoadY, Goto, Control
    <3>. QED BY <3>1, <3>2 DEF ThreadTypes
  <2>. QED BY <1>0, <1>2, <1>11, <2>1 DEF CycleOK, LoadY, Goto
<1>12. CASE Moved
  <2>1. pc' \in {"status", "copy_x"} /\ i' \in 0..MaxPoll
    BY <1>12, TurnTypes DEF Moved, ThreadTypes
  <2>2. ThreadTypes'
    BY <1>12, <2>1 DEF Moved, ThreadTypes, Control, locals
  <2>. QED BY <1>0, <1>2, <1>12, <2>1, <2>2 DEF CycleOK, Moved
<1>13. CASE CopyX
  <2>1. ThreadTypes'
    BY <1>13 DEF CopyX, Goto, ThreadTypes, DriverTypes, Control, locals
  <2>. QED BY <1>0, <1>2, <1>13, <2>1 DEF CycleOK, CopyX, Goto
<1>14. CASE CopyY
  <2>1. ThreadTypes'
    BY <1>14 DEF CopyY, Goto, ThreadTypes, DriverTypes, Control, locals
  <2>. QED BY <1>0, <1>2, <1>14, <2>1 DEF CycleOK, CopyY, Goto
<1>15. CASE CopyButtons \/ CopyPressed \/ CopyReleased
  <2>1. /\ out' \in [x : Int, y : Int, buttons : Bits, left_pressed : Bits, left_released : Bits]
        /\ UNCHANGED <<i, locals>>
    BY <1>15 DEF CopyButtons, CopyPressed, CopyReleased, ThreadTypes, DriverTypes
  <2>2. /\ pc \in {"copy_buttons", "copy_pressed", "copy_released"}
        /\ pc' \in {"copy_pressed", "copy_released", "clear_pressed"}
    BY <1>15 DEF CopyButtons, CopyPressed, CopyReleased, Goto
  <2>3. ThreadTypes'
    BY <2>1, <2>2 DEF ThreadTypes, Control, locals
  <2>. QED BY <1>0, <1>2, <2>2, <2>3 DEF CycleOK
<1>16. CASE OverflowX \/ OverflowY
  <2>1. /\ dx' \in -128..127 /\ dy' \in -128..127 /\ pc \in {"overflow_x", "overflow_y"}
        /\ pc' \in {"overflow_y", "old"} /\ UNCHANGED <<i, data, tmp, old, out>>
    BY <1>16 DEF OverflowX, OverflowY, Goto, ThreadTypes
  <2>2. ThreadTypes'
    BY <2>1 DEF ThreadTypes, Control
  <2>. QED BY <1>0, <1>2, <2>1, <2>2 DEF CycleOK
<1>17. CASE Now
  <2>1. tmp' \in Bits
    BY <1>17, PacketTypes DEF Now, DriverTypes
  <2>2. pc = "now" /\ pc' = "buttons" /\ UNCHANGED <<i, data, dx, dy, old, out>>
    BY <1>17 DEF Now, Goto
  <2>3. ThreadTypes'
    BY <2>1, <2>2 DEF ThreadTypes, Control, Bits
  <2>. QED BY <1>0, <1>2, <2>1, <2>2, <2>3 DEF CycleOK
<1>. QED BY <1>3, <1>4, <1>5, <1>6, <1>7, <1>8, <1>9, <1>10, <1>11, <1>12,
            <1>13, <1>14, <1>15, <1>16, <1>17

\* A step of the thread that writes to the driver keeps the types.
LEMMA WritingStepTypes ==
  ASSUME TypeOK, CycleOK,
         \/ Data \/ Increment \/ Store \/ Reset \/ Buttons \/ Edges \/ StoreX \/ StoreY
         \/ clamp_mouse \/ ClearPressed \/ ClearReleased
  PROVE  TypeOK' /\ CycleOK'
<1>. USE TypeParts
<1>0. DriverTypes' /\ ThreadTypes' => TypeOK'
  BY DEF TypeOK, DriverTypes, ThreadTypes, Byte, Bits
<1>1. CASE Data
  <2>1. DriverTypes'
    BY <1>1, PortTypes DEF Data, ReadPort, DriverTypes, machine, parser, position, buttons
  <2>2. ThreadTypes'
    BY <1>1, PortTypes DEF Data, Goto, ThreadTypes, Control
  <2>. QED BY <1>0, <1>1, <2>1, <2>2 DEF CycleOK, Data, Goto, parser
<1>2. CASE Increment
  <2>1. tmp \in 0..2
    BY <1>2 DEF Increment, Goto, CycleOK
  <2>2. DriverTypes'
    BY <1>2, <2>1 DEF Increment, DriverTypes, device, machine, position, buttons
  <2>3. ThreadTypes'
    BY <1>2 DEF Increment, Goto, ThreadTypes, Control, locals
  <2>. QED BY <1>0, <1>2, <2>1, <2>2, <2>3 DEF CycleOK, Increment, Goto, locals
<1>3. CASE Store
  <2>1. tmp \in Int /\ tmp >= 0 /\ data \in Byte
    BY <1>3 DEF Store, Goto, CycleOK, ThreadTypes
  <2>2. g_packet' \in [0..2 -> Byte] /\ g_present' \in Byte
    BY <1>3, <2>1, StoreTypes DEF Store
  <2>3. DriverTypes'
    BY <1>3, <2>2 DEF Store, DriverTypes, device, machine, position, buttons
  <2>4. ThreadTypes'
    BY <1>3 DEF Store, Goto, ThreadTypes, Control, Byte
  <2>. QED BY <1>0, <1>3, <2>3, <2>4 DEF CycleOK, Store, Goto
<1>4. CASE Reset
  <2>1. DriverTypes'
    BY <1>4 DEF Reset, DriverTypes, device, machine, position, buttons
  <2>2. ThreadTypes'
    BY <1>4 DEF Reset, Goto, ThreadTypes, Control, locals
  <2>. QED BY <1>0, <1>4, <2>1, <2>2 DEF CycleOK, Reset, Goto
<1>5. CASE Buttons
  <2>1. tmp \in Bits
    BY <1>5 DEF Buttons, Goto, CycleOK
  <2>2. DriverTypes'
    BY <1>5, <2>1 DEF Buttons, DriverTypes, device, machine, parser, position
  <2>3. ThreadTypes'
    BY <1>5 DEF Buttons, Goto, ThreadTypes, Control, locals
  <2>. QED BY <1>0, <1>5, <2>1, <2>2, <2>3 DEF CycleOK, Buttons, Goto, parser, locals
<1>6. CASE StoreX
  <2>1. DriverTypes'
    BY <1>6 DEF StoreX, DriverTypes, ThreadTypes, device, machine, parser, buttons
  <2>2. ThreadTypes'
    BY <1>6 DEF StoreX, Goto, ThreadTypes, Control
  <2>. QED BY <1>0, <1>6, <2>1, <2>2 DEF CycleOK, StoreX, Goto, parser
<1>7. CASE StoreY
  <2>1. DriverTypes'
    BY <1>7 DEF StoreY, DriverTypes, ThreadTypes, device, machine, parser, buttons
  <2>2. ThreadTypes'
    BY <1>7 DEF StoreY, Goto, ThreadTypes, Control
  <2>. QED BY <1>0, <1>7, <2>1, <2>2 DEF CycleOK, StoreY, Goto, parser
<1>8. CASE clamp_mouse
  <2>1. g_x' \in Int /\ g_y' \in Int
    BY <1>8, BoundsAssumption
    DEF clamp_mouse, Test, SetX, SetY, DriverIdle, DriverTypes, position
  <2>2. UNCHANGED <<device, machine, parser, buttons, i, locals, out>>
    BY <1>8 DEF clamp_mouse, Test, SetX, SetY, DriverIdle
  <2>3. pc' \in Control /\ pc \notin {"store", "full", "reset"}
        /\ pc' \notin {"increment", "store", "buttons", "edges"}
    BY <1>8 DEF clamp_mouse, Test, SetX, SetY, Goto, Control
  <2>4. DriverTypes'
    BY <2>1, <2>2 DEF DriverTypes, device, machine, parser, buttons
  <2>5. ThreadTypes'
    BY <2>2, <2>3 DEF ThreadTypes, locals
  <2>. QED BY <1>0, <2>2, <2>3, <2>4, <2>5 DEF CycleOK, parser
<1>9. CASE ClearPressed \/ ClearReleased
  <2>1. DriverTypes'
    BY <1>9 DEF ClearPressed, ClearReleased, DriverTypes, device, machine, parser, position, Bits
  <2>2. /\ pc \in {"clear_pressed", "clear_released"} /\ pc' \in {"clear_released", "idle"}
        /\ UNCHANGED <<g_cycle, i, locals, out>>
    BY <1>9 DEF ClearPressed, ClearReleased, Goto, parser
  <2>3. ThreadTypes'
    BY <2>2 DEF ThreadTypes, Control, locals
  <2>. QED BY <1>0, <2>1, <2>2, <2>3 DEF CycleOK
<1>10. CASE Edges
  <2>1. old \in Bits /\ tmp \in Bits
    BY <1>10 DEF Edges, CycleOK, ThreadTypes
  <2>2. g_left_pressed' \in Bits /\ g_left_released' \in Bits
    BY <1>10, <2>1, EdgeTypes DEF Edges
  <2>3. DriverTypes'
    BY <1>10, <2>2 DEF Edges, DriverTypes, device, machine, parser, position
  <2>4. pc' \in {"status", "copy_x", "load_x"} /\ i' \in 0..MaxPoll
    BY <1>10, TurnTypes DEF Edges, ThreadTypes
  <2>5. ThreadTypes'
    BY <1>10, <2>4 DEF Edges, ThreadTypes, Control, Bits
  <2>. QED BY <1>0, <1>10, <2>3, <2>4, <2>5 DEF CycleOK, Edges, parser
<1>. QED BY <1>1, <1>2, <1>3, <1>4, <1>5, <1>6, <1>7, <1>8, <1>9, <1>10

\* The types hold together with the range of g_cycle.
LEMMA TypeInvariant == Spec => [](TypeOK /\ CycleOK)
<1>1. Init => TypeOK /\ CycleOK
  <2>. SUFFICES ASSUME Init PROVE TypeOK /\ CycleOK
    OBVIOUS
  <2>1. Width \div 2 \in Int /\ Height \div 2 \in Int
    BY BoundsAssumption
  <2>2. DriverTypes
    <3>1. fromMouse \in Seq(Byte) /\ g_packet \in [0..2 -> Byte]
      BY DEF Init, Byte
    <3>2. latch \in Byte /\ g_present \in Byte /\ sent \in Bits /\ events \in 0..MaxEvents
      BY PollAssumption DEF Init, Byte, Bits
    <3>3. {irr1, irr12, irq12Works} \subseteq BOOLEAN /\ fromKeyboard \in BOOLEAN
      BY DEF Init
    <3>4. g_x \in Int /\ g_y \in Int /\ g_cycle \in 0..3
      BY <2>1 DEF Init
    <3>5. {g_buttons, g_left_pressed, g_left_released} \subseteq Bits /\ obuf = << >>
      BY DEF Init, Bits
    <3>. QED BY <3>1, <3>2, <3>3, <3>4, <3>5 DEF DriverTypes
  <2>3. ThreadTypes
    BY PollAssumption DEF Init, ThreadTypes, Control, Byte, Bits, Nothing
  <2>. QED BY <2>2, <2>3, TypeParts DEF CycleOK, Init
<1>2. TypeOK /\ CycleOK /\ [Next]_vars => (TypeOK /\ CycleOK)'
  <2>. SUFFICES ASSUME TypeOK, CycleOK, [Next]_vars PROVE TypeOK' /\ CycleOK'
    OBVIOUS
  <2>1. CASE UNCHANGED vars
    BY <2>1 DEF vars, device, machine, parser, position, buttons, locals, TypeOK, CycleOK
  <2>2. CASE Next
    BY <2>2, MachineStepTypes, LocalStepTypes, WritingStepTypes DEF Next, ThreadStep
  <2>. QED BY <2>1, <2>2
<1>. QED BY <1>1, <1>2, PTL DEF Spec

\* PS2Mouse's type invariant, for every screen, every mouse and every interleaving.
THEOREM TypeCorrect == Spec => []TypeOK
  BY TypeInvariant, PTL

-----------------------------------------------------------------------------
(* The pointer stays on the screen.                                        *)

\* g_x is off the screen only from the thread's store of it to the end of its
\* clamping, and has its lower bound once that has been tested; so has g_y.
OnScreen ==
  /\ pc \notin {"load_y", "store_y", "low_x", "set_low_x", "low_y", "set_low_y",
               "high_x", "set_high_x"} => g_x \in Columns
  /\ pc \in {"low_y", "set_low_y", "high_x"} => g_x >= 0
  /\ pc \notin {"low_x", "set_low_x", "low_y", "set_low_y", "high_x", "set_high_x",
               "high_y", "set_high_y"} => g_y \in Rows
  /\ pc \in {"high_x", "set_high_x", "high_y"} => g_y >= 0
  /\ ReportedInBounds

\* The handler puts the pointer on the screen or leaves it where it is.
LEMMA HandlerKeepsOnScreen ==
  ASSUME TypeOK, OnScreen, MouseIrq
  PROVE  OnScreen'
<1>1. UNCHANGED <<pc, out>>
  BY DEF MouseIrq
<1>2. UNCHANGED position \/ (g_x' \in Columns /\ g_y' \in Rows)
  <2>1. CASE UNCHANGED position
    BY <2>1
  <2>2. CASE mouse_process_byte(PortByte)
    BY <2>2, PortTypes, ProcessByteTypes
  <2>. QED BY <2>1, <2>2 DEF MouseIrq
<1>3. CASE UNCHANGED position
  BY <1>1, <1>3 DEF OnScreen, ReportedInBounds, position
<1>4. CASE g_x' \in Columns /\ g_y' \in Rows
  <2>1. g_x' >= 0 /\ g_y' >= 0
    BY <1>4 DEF Columns, Rows
  <2>. QED BY <1>1, <1>4, <2>1 DEF OnScreen, ReportedInBounds
<1>. QED BY <1>2, <1>3, <1>4

\* The four tests and stores of clamp_mouse bring the pointer back, one bound each.
LEMMA ClampKeepsOnScreen ==
  ASSUME TypeOK, OnScreen, clamp_mouse
  PROVE  OnScreen'
<1>0. g_x \in Int /\ g_y \in Int
  BY DEF TypeOK
<1>1. UNCHANGED out
  BY DEF clamp_mouse, Test, SetX, SetY
<1>2. CASE \/ Test("low_x", g_x < 0, "set_low_x", "low_y")
           \/ SetX("set_low_x", 0, "low_y")
  BY <1>0, <1>1, <1>2, BoundsAssumption
  DEF Test, SetX, Goto, DriverIdle, position, OnScreen, ReportedInBounds, Columns, Rows
<1>3. CASE \/ Test("low_y", g_y < 0, "set_low_y", "high_x")
           \/ SetY("set_low_y", 0, "high_x")
  BY <1>0, <1>1, <1>3, BoundsAssumption
  DEF Test, SetY, Goto, DriverIdle, position, OnScreen, ReportedInBounds, Columns, Rows
<1>4. CASE \/ Test("high_x", g_x >= Width, "set_high_x", "high_y")
           \/ SetX("set_high_x", Width - 1, "high_y")
  BY <1>0, <1>1, <1>4, BoundsAssumption
  DEF Test, SetX, Goto, DriverIdle, position, OnScreen, ReportedInBounds, Columns, Rows
<1>5. CASE \/ Test("high_y", g_y >= Height, "set_high_y", "moved")
           \/ SetY("set_high_y", Height - 1, "moved")
  BY <1>0, <1>1, <1>5, BoundsAssumption
  DEF Test, SetY, Goto, DriverIdle, position, OnScreen, ReportedInBounds, Columns, Rows
<1>. QED BY <1>2, <1>3, <1>4, <1>5 DEF clamp_mouse

\* Where the thread neither moves nor clamps the pointer, it stays where it is.
LEMMA OtherStepsKeepOnScreen ==
  ASSUME TypeOK, OnScreen, ThreadStep, ~clamp_mouse
  PROVE  OnScreen'
<1>1. CASE StoreX
  BY <1>1 DEF StoreX, Goto, OnScreen, ReportedInBounds
<1>2. CASE StoreY
  BY <1>2 DEF StoreY, Goto, OnScreen, ReportedInBounds
<1>3. CASE CopyX
  BY <1>3 DEF CopyX, Goto, DriverIdle, position, OnScreen, ReportedInBounds, TypeOK, Columns, Rows
<1>4. CASE CopyY
  BY <1>4 DEF CopyY, Goto, DriverIdle, position, OnScreen, ReportedInBounds, TypeOK, Columns, Rows
<1>5. CASE CopyButtons \/ CopyPressed \/ CopyReleased
  <2>1. UNCHANGED position /\ out'.x = out.x /\ out'.y = out.y
    BY <1>5 DEF CopyButtons, CopyPressed, CopyReleased, DriverIdle, TypeOK
  <2>2. /\ pc \in {"copy_buttons", "copy_pressed", "copy_released"}
        /\ pc' \in {"copy_pressed", "copy_released", "clear_pressed"}
    BY <1>5 DEF CopyButtons, CopyPressed, CopyReleased, Goto
  <2>. QED BY <2>1, <2>2 DEF OnScreen, ReportedInBounds, position
<1>6. CASE GetState
  BY <1>6, BoundsAssumption
  DEF GetState, DriverIdle, position, Nothing, OnScreen, ReportedInBounds
<1>7. CASE LoadX \/ LoadY
  BY <1>7 DEF LoadX, LoadY, Goto, DriverIdle, position, OnScreen, ReportedInBounds
<1>8. CASE \/ Status \/ Data \/ Sync \/ Index \/ Increment \/ Store \/ Full \/ Reset
           \/ DeltaOfX \/ DeltaOfY \/ OverflowX \/ OverflowY \/ Old \/ Now \/ Buttons \/ Edges
           \/ Moved \/ ClearPressed \/ ClearReleased
  <2>1. UNCHANGED <<position, out>>
    BY <1>8 DEF Status, Data, Sync, Index, Increment, Store, Full, Reset, DeltaOfX, DeltaOfY,
                OverflowX, OverflowY, Old, Now, Buttons, Edges, Moved, ClearPressed,
                ClearReleased, DriverIdle
  <2>2. /\ pc \in {"status", "data", "sync", "index", "increment", "store", "full", "reset",
                  "delta_x", "delta_y", "overflow_x", "overflow_y", "old", "now", "buttons",
                  "edges", "moved", "clear_pressed", "clear_released"}
        /\ pc' \in {"status", "data", "sync", "index", "increment", "store", "full", "reset",
                   "delta_x", "delta_y", "overflow_x", "overflow_y", "old", "now", "buttons",
                   "edges", "load_x", "copy_x", "clear_released", "idle"}
    BY <1>8 DEF Status, Data, Sync, Index, Increment, Store, Full, Reset, DeltaOfX, DeltaOfY,
                OverflowX, OverflowY, Old, Now, Buttons, Edges, Moved, ClearPressed,
                ClearReleased, Goto, Turn
  <2>. QED BY <2>1, <2>2 DEF OnScreen, ReportedInBounds, position
<1>. QED BY <1>1, <1>2, <1>3, <1>4, <1>5, <1>6, <1>7, <1>8 DEF ThreadStep

\* Whatever mouse_get_state returns is on the screen, for every size of the screen
\* and every interleaving of the thread's moving and clamping with the handler's.
THEOREM ReportedInBoundsAlways == Spec => []ReportedInBounds
<1>1. Init => OnScreen
  <2>1. Width \div 2 \in Columns /\ Height \div 2 \in Rows
    BY BoundsAssumption DEF Columns, Rows
  <2>. QED BY <2>1, BoundsAssumption DEF Init, OnScreen, ReportedInBounds, Nothing
<1>2. TypeOK /\ OnScreen /\ [Next]_vars => OnScreen'
  <2>. SUFFICES ASSUME TypeOK, OnScreen, [Next]_vars PROVE OnScreen'
    OBVIOUS
  <2>1. CASE UNCHANGED vars
    BY <2>1 DEF vars, position, OnScreen, ReportedInBounds
  <2>2. CASE MouseMoves \/ KeyStrikes \/ LoadMouseByte \/ LoadKeyByte \/ KeyboardIrq
    <3>1. UNCHANGED <<position, pc, out>>
      BY <2>2 DEF MouseMoves, KeyStrikes, LoadMouseByte, LoadKeyByte, KeyboardIrq
    <3>. QED BY <3>1 DEF position, OnScreen, ReportedInBounds
  <2>3. CASE MouseIrq
    BY <2>3, HandlerKeepsOnScreen
  <2>4. CASE ThreadStep
    BY <2>4, ClampKeepsOnScreen, OtherStepsKeepOnScreen
  <2>. QED BY <2>1, <2>2, <2>3, <2>4 DEF Next
<1>3. OnScreen => ReportedInBounds
  BY DEF OnScreen
<1>. QED BY <1>1, <1>2, <1>3, TypeCorrect, PTL DEF Spec

-----------------------------------------------------------------------------
(* Polling alone keeps step.  The bytes on their way are looked at as one   *)
(* sequence c, in front of which n bytes of a packet have been taken.       *)

\* c completes the packet and goes on in whole packets, each with its first byte.
InPackets(n, c) ==
  /\ (n + Len(c)) % 3 = 0
  /\ \A j \in 1..Len(c) : (n + j - 1) % 3 = 0 => Bit(c[j], 3)

\* The button is s when c has been read, if it is b where c begins no packet.
Says(c, b, s) == (IF Len(c) >= 3 THEN Left(c[Len(c) - 2]) ELSE b) = s

\* The mouse sends a packet.
LEMMA PacketSent ==
  ASSUME NEW n \in 0..3, NEW c \in Seq(Byte), InPackets(n, c), NEW p \in Packets, NEW b
  PROVE  c \o p \in Seq(Byte) /\ InPackets(n, c \o p) /\ Says(c \o p, b, Left(p[1]))
<1>1. p \in Seq(Byte) /\ Len(p) = 3 /\ Bit(p[1], 3)
  <2>1. p \in Byte \X Byte \X Byte
    BY BytesAssumption DEF Byte
  <2>2. PICK x \in Byte, y \in Byte, z \in Byte : p = <<x, y, z>>
    BY <2>1
  <2>. QED BY <2>2, PacketsAssumption
<1>2. /\ c \o p \in Seq(Byte) /\ Len(c \o p) = Len(c) + Len(p)
      /\ \A j \in 1..Len(c) + Len(p) :
           (c \o p)[j] = IF j <= Len(c) THEN c[j] ELSE p[j - Len(c)]
  BY <1>1, ConcatProperties, Zenon
<1>. DEFINE v == c \o p
<1>3. /\ v \in Seq(Byte) /\ Len(c) \in Nat /\ Len(v) = Len(c) + 3
      /\ \A j \in 1..Len(c) + 3 : v[j] = IF j <= Len(c) THEN c[j] ELSE p[j - Len(c)]
  BY <1>1, <1>2
<1>. HIDE DEF v
<1>4. v[Len(c) + 1] = p[1]
  BY <1>3
<1>5. (n + Len(v)) % 3 = 0
  BY <1>3 DEF InPackets
<1>6. ASSUME NEW j \in 1..Len(v), (n + j - 1) % 3 = 0
      PROVE  Bit(v[j], 3)
  <2>1. CASE j <= Len(c)
    <3>1. j \in 1..Len(c) /\ v[j] = c[j]
      BY <1>3, <1>6, <2>1
    <3>. QED BY <1>6, <3>1 DEF InPackets
  <2>2. CASE ~(j <= Len(c))
    <3>1. (n + Len(c)) % 3 = 0
      BY DEF InPackets
    <3>2. \A m \in Nat : \A k \in 1..m+3 :
            (n + m) % 3 = 0 /\ (n + k - 1) % 3 = 0 /\ ~(k <= m) => k = m + 1
      OBVIOUS
    <3>3. j = Len(c) + 1
      BY <1>3, <1>6, <2>2, <3>1, <3>2
    <3>. QED BY <1>1, <1>4, <3>3
  <2>. QED BY <2>1, <2>2
<1>7. Says(v, b, Left(p[1]))
  <2>1. Len(v) >= 3 /\ Len(v) - 2 = Len(c) + 1
    BY <1>3
  <2>. QED BY <1>4, <2>1 DEF Says
<1>8. InPackets(n, v)
  BY <1>5, <1>6 DEF InPackets
<1>. QED BY <1>3, <1>7, <1>8 DEF v

\* The driver takes a byte.
LEMMA ByteTaken ==
  ASSUME NEW n \in 0..2, NEW c \in Seq(Byte), c # << >>, InPackets(n, c)
  PROVE  /\ InPackets(n + 1, Tail(c))
         /\ n = 0 => Bit(c[1], 3)
         /\ \A b, s : Says(c, b, s) => Says(Tail(c), IF n = 0 THEN Left(c[1]) ELSE b, s)
<1>. DEFINE v == Tail(c)
<1>1. /\ v \in Seq(Byte) /\ Len(c) \in Nat /\ Len(c) >= 1 /\ Len(v) = Len(c) - 1
      /\ \A j \in 1..Len(c)-1 : v[j] = c[j + 1]
  <2>1. Len(c) \in Nat /\ Len(c) >= 1
    OBVIOUS
  <2>2. v \in Seq(Byte) /\ Len(v) = Len(c) - 1 /\ \A j \in 1..Len(v) : v[j] = c[j + 1]
    BY HeadTailProperties, Zenon
  <2>. HIDE DEF v
  <2>. QED BY <2>1, <2>2
<1>. HIDE DEF v
<1>2. (n + Len(c)) % 3 = 0
  BY DEF InPackets
<1>3. (n + 1 + Len(v)) % 3 = 0
  BY <1>1, <1>2
<1>4. ASSUME NEW j \in 1..Len(v), (n + 1 + j - 1) % 3 = 0
      PROVE  Bit(v[j], 3)
  <2>1. j + 1 \in 1..Len(c) /\ (n + (j + 1) - 1) % 3 = 0 /\ v[j] = c[j + 1]
    BY <1>1, <1>4
  <2>. QED BY <2>1 DEF InPackets
<1>5. InPackets(n + 1, v)
  BY <1>3, <1>4 DEF InPackets
<1>6. n = 0 => Bit(c[1], 3)
  BY <1>1 DEF InPackets
<1>7. ASSUME NEW b, NEW s, Says(c, b, s)
      PROVE  Says(v, IF n = 0 THEN Left(c[1]) ELSE b, s)
  <2>1. CASE Len(c) >= 4
    <3>1. Len(v) >= 3 /\ Len(c) >= 3 /\ v[Len(v) - 2] = c[Len(c) - 2]
      BY <1>1, <2>1
    <3>. QED BY <1>7, <3>1 DEF Says
  <2>2. CASE Len(c) = 3
    <3>1. n = 0 /\ ~(Len(v) >= 3) /\ Len(c) >= 3 /\ Len(c) - 2 = 1
      BY <1>1, <1>2, <2>2
    <3>. QED BY <1>7, <3>1 DEF Says
  <2>3. CASE Len(c) <= 2
    <3>1. n # 0 /\ ~(Len(v) >= 3) /\ ~(Len(c) >= 3)
      BY <1>1, <1>2, <2>3
    <3>. QED BY <1>7, <3>1 DEF Says
  <2>. QED BY <1>1, <2>1, <2>2, <2>3
<1>. QED BY <1>5, <1>6, <1>7 DEF v

\* Three bytes taken are as good as none.
LEMMA PacketTaken ==
  ASSUME NEW c \in Seq(Byte), InPackets(3, c)
  PROVE  InPackets(0, c)
<1>1. Len(c) \in Nat /\ (3 + Len(c)) % 3 = 0
  BY DEF InPackets
<1>2. (0 + Len(c)) % 3 = 0
  BY <1>1
<1>3. ASSUME NEW j \in 1..Len(c), (0 + j - 1) % 3 = 0
      PROVE  Bit(c[j], 3)
  <2>1. (3 + j - 1) % 3 = 0
    BY <1>3
  <2>. QED BY <2>1 DEF InPackets
<1>. QED BY <1>2, <1>3 DEF InPackets

-----------------------------------------------------------------------------
\* Whether the output buffer has a byte of the mouse.
AuxWaits == obuf # << >> /\ obuf[1].aux

\* The mouse's bytes that the driver has still to take.
Coming == (IF AuxWaits THEN <<obuf[1].byte>> ELSE << >>) \o fromMouse

\* How many bytes of a packet the driver has taken, and the first of them.
Taking == {"sync", "index", "increment"}
Taken == IF pc \in Taking THEN g_cycle + 1 ELSE g_cycle
First ==
  IF (pc \in Taking /\ g_cycle = 0) \/ (pc = "store" /\ tmp = 0) THEN data ELSE g_packet[0]

\* The button as the bytes that have been taken say.
Reading == {"delta_x", "delta_y", "overflow_x", "overflow_y", "old", "now", "buttons"}
Known == IF Taken > 0 \/ pc \in Reading THEN Left(First) ELSE g_buttons

\* Only a byte of the keyboard has its interrupt pending, so that nobody takes a byte of
\* the mouse between the thread's look at the status and its read.
OwnBytes ==
  /\ irr1 => obuf # << >> /\ ~AuxWaits
  /\ pc = "data" => AuxWaits

\* What the thread has loaded of g_cycle and of the byte is what they are.
Loaded ==
  /\ pc = "increment" => tmp = g_cycle
  /\ pc = "store" => g_cycle = tmp + 1
  /\ pc = "sync" /\ g_cycle = 0 => Bit(data, 3)
  /\ pc = "reset" => g_cycle = 3
  /\ pc = "buttons" => tmp = Left(g_packet[0])

\* The inductive invariant, on a machine where polling is alone.
InStep == OwnBytes /\ Loaded /\ InPackets(Taken, Coming) /\ Says(Coming, Known, sent)

LEMMA ComingBytes ==
  ASSUME TypeOK
  PROVE  Coming \in Seq(Byte) /\ fromMouse \in Seq(Byte)
<1>1. fromMouse \in Seq(Byte)
  BY DEF TypeOK, Byte
<1>2. CASE AuxWaits
  <2>1. obuf[1].byte \in Byte
    BY <1>2, PortTypes DEF PortByte, AuxWaits
  <2>2. <<obuf[1].byte>> \in Seq(Byte)
    BY <2>1
  <2>. QED BY <1>1, <1>2, <2>2, ConcatProperties DEF Coming
<1>3. CASE ~AuxWaits
  BY <1>1, <1>3, ConcatEmptySeq DEF Coming
<1>. QED BY <1>1, <1>2, <1>3

LEMMA TakenCounts ==
  ASSUME TypeOK, CycleOK
  PROVE  Taken \in 0..3
  BY DEF TypeOK, CycleOK, Taken, Taking

\* The mouse's byte goes into the buffer: nothing comes or goes.
LEMMA LoadedComing ==
  ASSUME TypeOK, LoadMouseByte
  PROVE  Coming' = Coming
<1>1. /\ fromMouse \in Seq(Byte) /\ fromMouse # << >> /\ obuf = << >>
      /\ fromMouse' = Tail(fromMouse) /\ obuf' = <<[aux |-> TRUE, byte |-> Head(fromMouse)]>>
  BY DEF LoadMouseByte, TypeOK, Byte
<1>2. Coming = fromMouse
  BY <1>1, ConcatEmptySeq DEF Coming, AuxWaits
<1>3. Coming' = <<Head(fromMouse)>> \o Tail(fromMouse)
  <2>1. obuf' # << >> /\ obuf'[1] = [aux |-> TRUE, byte |-> Head(fromMouse)]
    BY <1>1
  <2>2. AuxWaits' /\ obuf'[1].byte = Head(fromMouse)
    BY <2>1 DEF AuxWaits
  <2>. QED BY <1>1, <2>2 DEF Coming
<1>4. \A s \in Seq(Byte) : s # << >> => <<Head(s)>> \o Tail(s) = s
  <2>. SUFFICES ASSUME NEW s \in Seq(Byte), s # << >>
                PROVE  <<Head(s)>> \o Tail(s) = s
    OBVIOUS
  <2>. DEFINE h == <<Head(s)>>
              t == Tail(s)
  <2>1. h \in Seq(Byte) /\ Len(h) = 1 /\ h[1] = s[1]
    OBVIOUS
  <2>2. t \in Seq(Byte) /\ Len(s) \in Nat /\ Len(s) >= 1 /\ Len(t) = Len(s) - 1
        /\ \A j \in 1..Len(s)-1 : t[j] = s[j + 1]
    OBVIOUS
  <2>. HIDE DEF h, t
  <2>3. /\ h \o t \in Seq(Byte) /\ Len(h \o t) = Len(h) + Len(t)
        /\ \A j \in 1..Len(h) + Len(t) : (h \o t)[j] = IF j <= Len(h) THEN h[j] ELSE t[j - Len(h)]
    <3>1. h \in Seq(Byte) /\ t \in Seq(Byte)
      BY <2>1, <2>2
    <3>. QED BY <3>1, ConcatProperties
  <2>. DEFINE z == h \o t
  <2>4. /\ z \in Seq(Byte) /\ Len(z) = Len(s)
        /\ \A j \in 1..Len(s) : z[j] = IF j <= 1 THEN h[j] ELSE t[j - 1]
    BY <2>1, <2>2, <2>3
  <2>. HIDE DEF z
  <2>5. \A j \in 1..Len(s) : z[j] = s[j]
    BY <2>1, <2>2, <2>4
  <2>6. z = s
    BY <2>4, <2>5, SeqEqual
  <2>. QED BY <2>6 DEF z, h, t
<1>. QED BY <1>1, <1>2, <1>3, <1>4

\* The thread takes the first of them.
LEMMA DataComing ==
  ASSUME TypeOK, OwnBytes, Data
  PROVE  Coming # << >> /\ data' = Coming[1] /\ Coming' = Tail(Coming) /\ ~AuxWaits'
<1>1. AuxWaits /\ obuf' = << >> /\ fromMouse' = fromMouse /\ data' = obuf[1].byte
  BY DEF Data, Goto, OwnBytes, AuxWaits, ReadPort, PortByte
<1>2. fromMouse \in Seq(Byte) /\ obuf[1].byte \in Byte
  BY <1>1, PortTypes DEF TypeOK, Byte, PortByte, AuxWaits
<1>3. ~AuxWaits' /\ Coming' = fromMouse
  BY <1>1, <1>2, ConcatEmptySeq DEF Coming, AuxWaits
<1>4. Coming = <<obuf[1].byte>> \o fromMouse
  BY <1>1 DEF Coming
<1>5. \A b \in Byte, s \in Seq(Byte) :
        <<b>> \o s # << >> /\ (<<b>> \o s)[1] = b /\ Tail(<<b>> \o s) = s
  OBVIOUS
<1>. QED BY <1>1, <1>2, <1>3, <1>4, <1>5

\* A step of the devices, or the keyboard's handler.
LEMMA DevicesKeepStep ==
  ASSUME TypeOK, TypeOK', CycleOK, InStep, ~irq12Works,
         MouseMoves \/ KeyStrikes \/ LoadMouseByte \/ LoadKeyByte \/ KeyboardIrq \/ MouseIrq
  PROVE  InStep'
<1>1. UNCHANGED <<g_packet, g_cycle, g_buttons, pc, data, tmp>>
  BY DEF MouseMoves, KeyStrikes, LoadMouseByte, LoadKeyByte, KeyboardIrq, MouseIrq,
         parser, buttons, locals
<1>2. Taken' = Taken /\ Known' = Known /\ Loaded'
  BY <1>1 DEF InStep, Taken, Known, Reading, First, Loaded
<1>3. Coming \in Seq(Byte) /\ Taken \in 0..3
  BY ComingBytes, TakenCounts
<1>4. ASSUME Coming' = Coming, sent' = sent, OwnBytes'
      PROVE  InStep'
  BY <1>2, <1>4 DEF InStep
<1>5. CASE MouseMoves
  <2>1. PICK p \in Packets : fromMouse' = fromMouse \o p /\ sent' = Left(p[1])
    BY <1>5 DEF MouseMoves
  <2>2. obuf' = obuf /\ irr1' = irr1
    BY <1>5 DEF MouseMoves
  <2>3. AuxWaits' = AuxWaits /\ OwnBytes'
    BY <1>1, <2>2 DEF AuxWaits, OwnBytes, InStep
  <2>4. Coming' = Coming \o p
    <3>1. fromMouse \in Seq(Byte) /\ p \in Seq(Byte)
      BY ComingBytes, PacketBytes
    <3>2. CASE AuxWaits
      <4>1. obuf[1].byte \in Byte
        BY <3>2, PortTypes DEF PortByte, AuxWaits
      <4>2. <<obuf[1].byte>> \in Seq(Byte)
        BY <4>1
      <4>3. Coming = <<obuf[1].byte>> \o fromMouse /\ Coming' = <<obuf[1].byte>> \o (fromMouse \o p)
        BY <2>1, <2>2, <2>3, <3>2 DEF Coming
      <4>. QED BY <3>1, <4>2, <4>3, ConcatAssociative
    <3>3. CASE ~AuxWaits
      <4>1. Coming = << >> \o fromMouse /\ Coming' = << >> \o (fromMouse \o p)
        BY <2>1, <2>3, <3>3 DEF Coming
      <4>2. << >> \in Seq(Byte)
        OBVIOUS
      <4>. QED BY <3>1, <4>1, <4>2, ConcatAssociative
    <3>. QED BY <3>2, <3>3
  <2>5. InPackets(Taken, Coming \o p) /\ Says(Coming \o p, Known, Left(p[1]))
    BY <1>3, PacketSent DEF InStep
  <2>. QED BY <1>2, <2>1, <2>3, <2>4, <2>5 DEF InStep
<1>6. CASE KeyStrikes
  <2>1. obuf' = obuf /\ fromMouse' = fromMouse /\ irr1' = irr1 /\ sent' = sent
    BY <1>6 DEF KeyStrikes
  <2>. QED BY <1>1, <1>4, <2>1 DEF Coming, AuxWaits, OwnBytes, InStep
<1>7. CASE LoadMouseByte
  <2>1. obuf = << >> /\ obuf' # << >> /\ irr1' = irr1 /\ sent' = sent
    BY <1>7 DEF LoadMouseByte, machine
  <2>2. ~AuxWaits
    BY <2>1 DEF AuxWaits
  <2>3. pc # "data"
    BY <2>2 DEF InStep, OwnBytes
  <2>4. ~irr1
    BY <2>1 DEF InStep, OwnBytes
  <2>5. OwnBytes'
    BY <1>1, <2>1, <2>3, <2>4 DEF OwnBytes
  <2>. QED BY <1>4, <1>7, <2>1, <2>5, LoadedComing
<1>8. CASE LoadKeyByte
  <2>1. obuf = << >> /\ fromMouse' = fromMouse /\ sent' = sent
        /\ obuf' = <<[aux |-> FALSE, byte |-> KeyByte]>>
    BY <1>8 DEF LoadKeyByte, machine
  <2>2. ~AuxWaits /\ ~AuxWaits'
    BY <2>1 DEF AuxWaits
  <2>3. pc # "data"
    BY <2>2 DEF InStep, OwnBytes
  <2>4. OwnBytes' /\ Coming' = Coming
    BY <1>1, <2>1, <2>2, <2>3 DEF OwnBytes, Coming
  <2>. QED BY <1>4, <2>1, <2>4
<1>9. CASE KeyboardIrq
  <2>1. irr1 /\ irr1' = FALSE /\ obuf' = << >> /\ fromMouse' = fromMouse /\ sent' = sent
    BY <1>9 DEF KeyboardIrq, ReadPort, machine
  <2>2. ~AuxWaits /\ ~AuxWaits'
    BY <2>1 DEF AuxWaits, InStep, OwnBytes
  <2>3. pc # "data"
    BY <2>2 DEF InStep, OwnBytes
  <2>. QED BY <1>1, <1>4, <2>1, <2>2, <2>3 DEF OwnBytes, Coming
<1>10. ~MouseIrq
  BY DEF MouseIrq
<1>. QED BY <1>5, <1>6, <1>7, <1>8, <1>9, <1>10

\* The thread takes a byte.
LEMMA DataKeepsStep ==
  ASSUME TypeOK, CycleOK, InStep, Data
  PROVE  InStep'
<1>1. Coming # << >> /\ data' = Coming[1] /\ Coming' = Tail(Coming) /\ ~AuxWaits'
  BY DataComing DEF InStep
<1>2. /\ pc = "data" /\ pc' = "sync" /\ irr1' = irr1 /\ sent' = sent
      /\ UNCHANGED <<g_packet, g_cycle, g_buttons, tmp>>
  BY DEF Data, Goto, machine, parser, buttons
<1>3. g_cycle \in 0..2 /\ Taken = g_cycle /\ Taken' = g_cycle + 1
  BY <1>2 DEF TypeOK, CycleOK, Taken, Taking
<1>4. /\ InPackets(Taken + 1, Tail(Coming))
      /\ Taken = 0 => Bit(Coming[1], 3)
      /\ Says(Tail(Coming), IF Taken = 0 THEN Left(Coming[1]) ELSE Known, sent)
  BY <1>1, <1>3, ComingBytes, ByteTaken DEF InStep
<1>5. Known' = IF Taken = 0 THEN Left(Coming[1]) ELSE Known
  BY <1>1, <1>2, <1>3 DEF Known, Reading, First, Taking
<1>6. OwnBytes' /\ Loaded'
  <2>1. ~irr1'
    BY <1>2 DEF InStep, OwnBytes
  <2>. QED BY <1>1, <1>2, <1>3, <1>4, <2>1 DEF OwnBytes, Loaded
<1>. QED BY <1>1, <1>2, <1>3, <1>4, <1>5, <1>6 DEF InStep

\* Nothing that the thread does besides takes a byte.
LEMMA OtherThreadDevices ==
  ASSUME ThreadStep, ~Data
  PROVE  UNCHANGED <<device, machine>>
  BY DEF ThreadStep, GetState, Status, Sync, Index, Increment, Store, Full, Reset, DeltaOfX,
         DeltaOfY, OverflowX, OverflowY, Old, Now, Buttons, Edges, LoadX, StoreX, LoadY, StoreY,
         clamp_mouse, Test, SetX, SetY, Moved, CopyX, CopyY, CopyButtons, CopyPressed,
         CopyReleased, ClearPressed, ClearReleased, DriverIdle

\* The other steps of the thread keep what is known, the parser's one after the other.
LEMMA ThreadKeepsStep ==
  ASSUME TypeOK, CycleOK, InStep, ThreadStep, ~Data
  PROVE  InStep'
<1>1. /\ irr1' = irr1 /\ obuf' = obuf /\ sent' = sent
      /\ AuxWaits' = AuxWaits /\ Coming' = Coming
  BY OtherThreadDevices DEF device, machine, AuxWaits, Coming
<1>2. Coming \in Seq(Byte) /\ g_cycle \in 0..3 /\ g_packet \in [0..2 -> Byte]
  BY ComingBytes DEF TypeOK, Byte
<1>3. ASSUME Taken' = Taken, Known' = Known, Loaded', pc' # "data"
      PROVE  InStep'
  BY <1>1, <1>3 DEF InStep, OwnBytes
<1>. DEFINE Apart == {"idle", "status", "load_x", "store_x", "load_y", "store_y",
              "low_x", "set_low_x", "low_y", "set_low_y", "high_x", "set_high_x",
              "high_y", "set_high_y", "moved", "copy_x", "copy_y", "copy_buttons",
              "copy_pressed", "copy_released", "clear_pressed", "clear_released"}
<1>4. ASSUME pc \in Apart, pc' \in Apart \cup {"data"}, UNCHANGED <<g_cycle, g_packet, g_buttons>>
      PROVE  Taken' = Taken /\ Known' = Known /\ Loaded'
  BY <1>4 DEF Taken, Known, Reading, First, Taking, Loaded
<1>5. CASE GetState \/ LoadX \/ StoreX \/ LoadY \/ StoreY \/ clamp_mouse \/ Moved \/ CopyX \/ CopyY
             \/ CopyButtons \/ CopyPressed \/ CopyReleased \/ ClearPressed \/ ClearReleased
  <2>1. pc \in Apart /\ pc' \in Apart
    BY <1>5 DEF GetState, LoadX, StoreX, LoadY, StoreY, clamp_mouse, Test, SetX, SetY, Moved, CopyX,
                CopyY, CopyButtons, CopyPressed, CopyReleased, ClearPressed, ClearReleased,
                Goto, Turn
  <2>2. UNCHANGED <<g_cycle, g_packet, g_buttons>>
    BY <1>5 DEF GetState, LoadX, StoreX, LoadY, StoreY, clamp_mouse, Test, SetX, SetY, Moved, CopyX,
                CopyY, CopyButtons, CopyPressed, CopyReleased, ClearPressed, ClearReleased,
                DriverIdle, parser, buttons
  <2>3. pc' # "data"
    BY <2>1
  <2>. QED BY <1>3, <1>4, <2>1, <2>2, <2>3
<1>6. CASE Status
  <2>1. /\ pc = "status" /\ pc' = IF AuxWaits THEN "data" ELSE "copy_x"
        /\ UNCHANGED <<g_cycle, g_packet, g_buttons>>
    BY <1>6 DEF Status, AuxWaits, DriverIdle, parser, buttons
  <2>2. pc \in Apart /\ pc' \in Apart \cup {"data"}
    BY <2>1
  <2>3. Taken' = Taken /\ Known' = Known /\ Loaded'
    BY <1>4, <2>1, <2>2
  <2>4. OwnBytes'
    BY <1>1, <2>1 DEF InStep, OwnBytes
  <2>. QED BY <1>1, <2>3, <2>4 DEF InStep
<1>7. CASE Sync
  <2>1. pc = "sync" /\ pc' = "index" /\ UNCHANGED <<g_cycle, g_packet, g_buttons, data>>
    BY <1>7 DEF Sync, DriverIdle, parser, buttons, InStep, Loaded
  <2>2. Taken' = Taken /\ Known' = Known /\ Loaded' /\ pc' # "data"
    BY <2>1 DEF Taken, Known, Reading, First, Taking, Loaded
  <2>. QED BY <1>3, <2>2
<1>8. CASE Index
  <2>1. /\ pc = "index" /\ pc' = "increment" /\ tmp' = g_cycle
        /\ UNCHANGED <<g_cycle, g_packet, g_buttons, data>>
    BY <1>8 DEF Index, Goto, DriverIdle, parser, buttons
  <2>2. Taken' = Taken /\ Known' = Known /\ Loaded' /\ pc' # "data"
    BY <2>1 DEF Taken, Known, Reading, First, Taking, Loaded
  <2>. QED BY <1>3, <2>2
<1>9. CASE Increment
  <2>1. /\ pc = "increment" /\ pc' = "store" /\ g_cycle' = tmp + 1 /\ tmp = g_cycle
        /\ UNCHANGED <<g_packet, g_buttons, data, tmp>>
    BY <1>9 DEF Increment, Goto, buttons, locals, InStep, Loaded
  <2>2. Taken = g_cycle + 1 /\ Taken' = g_cycle + 1 /\ Taken > 0
    BY <1>2, <2>1 DEF Taken, Taking
  <2>3. First' = First
    BY <2>1 DEF First, Taking
  <2>4. Known' = Known
    BY <2>2, <2>3 DEF Known, Reading
  <2>5. Loaded' /\ pc' # "data"
    BY <2>1 DEF Loaded
  <2>. QED BY <1>3, <2>2, <2>4, <2>5
<1>10. CASE Store
  <2>1. /\ pc = "store" /\ pc' = "full" /\ g_cycle = tmp + 1 /\ tmp \in 0..2 /\ StoreAt(tmp, data)
        /\ UNCHANGED <<g_cycle, g_buttons>>
    BY <1>10 DEF Store, Goto, buttons, InStep, Loaded, CycleOK
  <2>2. Taken = g_cycle /\ Taken' = g_cycle /\ Taken > 0
    BY <1>2, <2>1 DEF Taken, Taking
  <2>3. g_packet' = [g_packet EXCEPT ![tmp] = data]
    BY <2>1 DEF StoreAt
  <2>4. g_packet'[0] = IF tmp = 0 THEN data ELSE g_packet[0]
    BY <1>2, <2>1, <2>3
  <2>5. First' = First
    BY <2>1, <2>4 DEF First, Taking
  <2>6. Known' = Known
    BY <2>2, <2>5 DEF Known, Reading
  <2>7. Loaded' /\ pc' # "data"
    BY <2>1 DEF Loaded
  <2>. QED BY <1>3, <2>2, <2>6, <2>7
<1>11. CASE Full
  <2>1. /\ pc = "full" /\ pc' \in {"status", "copy_x", "reset"}
        /\ pc' = "reset" => ~(g_cycle < 3)
        /\ UNCHANGED <<g_cycle, g_packet, g_buttons>>
    BY <1>11 DEF Full, Turn, DriverIdle, parser, buttons
  <2>2. Taken' = Taken /\ First' = First
    BY <2>1 DEF Taken, First, Taking
  <2>3. Known' = Known
    BY <2>1, <2>2 DEF Known, Reading
  <2>4. pc' = "reset" => g_cycle' = 3
    BY <1>2, <2>1
  <2>5. Loaded' /\ pc' # "data"
    BY <2>1, <2>4 DEF Loaded
  <2>. QED BY <1>3, <2>2, <2>3, <2>5
<1>12. CASE Reset
  <2>1. /\ pc = "reset" /\ pc' = "delta_x" /\ g_cycle = 3 /\ g_cycle' = 0
        /\ UNCHANGED <<g_packet, g_buttons>>
    BY <1>12 DEF Reset, Goto, buttons, InStep, Loaded
  <2>2. Taken = 3 /\ Taken' = 0
    BY <2>1 DEF Taken, Taking
  <2>3. Known' = Known
    BY <2>1, <2>2 DEF Known, Reading, First, Taking
  <2>4. Loaded' /\ OwnBytes'
    BY <1>1, <2>1 DEF Loaded, InStep, OwnBytes
  <2>5. InPackets(0, Coming)
    BY <1>2, <2>2, PacketTaken DEF InStep
  <2>. QED BY <1>1, <2>2, <2>3, <2>4, <2>5 DEF InStep
<1>13. CASE DeltaOfX \/ DeltaOfY \/ OverflowX \/ OverflowY \/ Old
  <2>1. /\ pc \in {"delta_x", "delta_y", "overflow_x", "overflow_y", "old"}
        /\ pc' \in {"delta_y", "overflow_x", "overflow_y", "old", "now"}
        /\ UNCHANGED <<g_cycle, g_packet, g_buttons>>
    BY <1>13 DEF DeltaOfX, DeltaOfY, OverflowX, OverflowY, Old, Goto, DriverIdle, parser, buttons
  <2>2. Taken' = Taken /\ Known' = Known /\ Loaded' /\ pc' # "data"
    BY <2>1 DEF Taken, Known, Reading, First, Taking, Loaded
  <2>. QED BY <1>3, <2>2
<1>14. CASE Now
  <2>1. /\ pc = "now" /\ pc' = "buttons" /\ tmp' = Left(g_packet[0])
        /\ UNCHANGED <<g_cycle, g_packet, g_buttons>>
    BY <1>14 DEF Now, Goto, DriverIdle, parser, buttons
  <2>2. Taken' = Taken /\ Known' = Known /\ Loaded' /\ pc' # "data"
    BY <2>1 DEF Taken, Known, Reading, First, Taking, Loaded
  <2>. QED BY <1>3, <2>2
<1>15. CASE Buttons
  <2>1. /\ pc = "buttons" /\ pc' = "edges" /\ tmp = Left(g_packet[0])
        /\ g_buttons' = tmp /\ UNCHANGED <<g_cycle, g_packet>>
    BY <1>15 DEF Buttons, Goto, parser, InStep, Loaded
  <2>2. Taken' = Taken /\ Known' = Known /\ Loaded' /\ pc' # "data"
    BY <2>1 DEF Taken, Known, Reading, First, Taking, Loaded
  <2>. QED BY <1>3, <2>2
<1>16. CASE Edges
  <2>1. /\ pc = "edges" /\ pc' \in {"status", "copy_x", "load_x"}
        /\ UNCHANGED <<g_cycle, g_packet, g_buttons>>
    BY <1>16 DEF Edges, Turn, parser
  <2>2. Taken' = Taken /\ Known' = Known /\ Loaded' /\ pc' # "data"
    BY <2>1 DEF Taken, Known, Reading, First, Taking, Loaded
  <2>. QED BY <1>3, <2>2
<1>. QED
  BY <1>5, <1>6, <1>7, <1>8, <1>9, <1>10, <1>11, <1>12, <1>13, <1>14,
     <1>15, <1>16 DEF ThreadStep

\* Where polling is alone, the driver is in step with the mouse and has its button whenever
\* the mouse has been heard out, for every mouse and every number of bytes on their way.
THEOREM PollingAlwaysTracks == Spec => []PollingTracksMouse
<1>. DEFINE Alone == ~irq12Works => InStep
<1>1. Init => Alone
  <2>. SUFFICES ASSUME Init PROVE InStep
    OBVIOUS
  <2>1. /\ obuf = << >> /\ fromMouse = << >> /\ irr1 = FALSE /\ sent = 0 /\ g_cycle = 0
        /\ g_buttons = 0 /\ pc = "idle"
    BY DEF Init
  <2>2. ~AuxWaits /\ Coming = << >> /\ Len(Coming) = 0
    BY <2>1, ConcatEmptySeq DEF AuxWaits, Coming
  <2>3. Taken = 0 /\ Known = 0 /\ Loaded /\ OwnBytes
    BY <2>1 DEF Taken, Known, Taking, Reading, Loaded, OwnBytes
  <2>4. InPackets(0, Coming) /\ Says(Coming, 0, 0)
    BY <2>2 DEF InPackets, Says
  <2>. QED BY <2>1, <2>3, <2>4 DEF InStep
<1>2. TypeOK /\ TypeOK' /\ CycleOK /\ Alone /\ [Next]_vars => Alone'
  <2>. SUFFICES ASSUME TypeOK, TypeOK', CycleOK, Alone, [Next]_vars, ~irq12Works' PROVE InStep'
    OBVIOUS
  <2>1. CASE UNCHANGED vars
    <3>1. UNCHANGED <<obuf, fromMouse, irr1, sent, irq12Works, g_cycle, g_packet, g_buttons,
                      pc, data, tmp>>
      BY <2>1 DEF vars, device, machine, parser, buttons, locals
    <3>. QED BY <3>1 DEF InStep, OwnBytes, Loaded, AuxWaits, Coming, Taken, Known, First
  <2>2. CASE MouseMoves \/ KeyStrikes \/ LoadMouseByte \/ LoadKeyByte \/ KeyboardIrq \/ MouseIrq
    <3>1. irq12Works' = irq12Works
      BY <2>2 DEF MouseMoves, KeyStrikes, LoadMouseByte, LoadKeyByte, KeyboardIrq, MouseIrq, machine
    <3>. QED BY <2>2, <3>1, DevicesKeepStep
  <2>3. CASE Data
    <3>1. irq12Works' = irq12Works
      BY <2>3 DEF Data, machine
    <3>. QED BY <2>3, <3>1, DataKeepsStep
  <2>4. CASE ThreadStep /\ ~Data
    <3>1. irq12Works' = irq12Works
      BY <2>4, OtherThreadDevices DEF machine
    <3>. QED BY <2>4, <3>1, ThreadKeepsStep
  <2>. QED BY <2>1, <2>2, <2>3, <2>4 DEF Next
<1>3. TypeOK /\ CycleOK /\ Alone => PollingTracksMouse
  <2>. SUFFICES ASSUME TypeOK, CycleOK, InStep, pc = "idle", fromMouse = << >>, ~AuxWaits
                PROVE  g_cycle = 0 /\ g_buttons = sent
    BY DEF PollingTracksMouse, AuxWaits
  <2>1. Coming = << >> /\ Len(Coming) = 0
    BY ConcatEmptySeq DEF Coming
  <2>2. g_cycle \in 0..2 /\ Taken = g_cycle
    BY DEF TypeOK, CycleOK, Taken, Taking
  <2>3. (Taken + 0) % 3 = 0
    BY <2>1 DEF InStep, InPackets
  <2>4. g_cycle = 0
    BY <2>2, <2>3
  <2>5. Known = g_buttons
    BY <2>2, <2>4 DEF Known, Reading
  <2>. QED BY <2>1, <2>4, <2>5 DEF InStep, Says
<1>. QED BY <1>1, <1>2, <1>3, TypeInvariant, PTL DEF Spec

=============================================================================

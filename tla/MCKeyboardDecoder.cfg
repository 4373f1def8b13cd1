\* The decoder under both Shifts, both Ctrls, Caps Lock, a letter and an arrow.
SPECIFICATION Spec
CONSTANTS
  KBD_BUFFER_SIZE = 2
  scancode_ascii <- AsciiTable
  scancode_shift_ascii <- ShiftAsciiTable
  PhysicalKeys <- ModifierKeys
  Calls <- CancelCalls
  MaxWire = 2
INVARIANT NoStuckModifier

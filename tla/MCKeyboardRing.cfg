\* The ring under typing, with every call that reads it.
SPECIFICATION FairSpec
CONSTANTS
  KBD_BUFFER_SIZE = 4
  scancode_ascii <- AsciiTable
  scancode_shift_ascii <- ShiftAsciiTable
  PhysicalKeys <- TypingKeys
  Calls <- GetCalls
  MaxWire = 2
INVARIANTS TypeOK SlotIsOldest
PROPERTIES RefinesKeyQueue GetkeyReturns

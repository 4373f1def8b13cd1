\* One late answer, and three bytes or packets that nobody asked for.
SPECIFICATION BootFairSpec
CONSTANTS
  Commands <- MCCommands
  KeyBytes <- MCKeyBytes
  KeyCodes <- MCKeyCodes
  Packet <- MCPacket
  MaxLate = 1
  MaxUnasked = 3
INVARIANTS BootTypeOK HandlersReady KeyboardSurvives MouseInStep
PROPERTIES BootEnds RequestsServed KeysArrive

\* Does the parser stay in its three bytes?
SPECIFICATION Spec
CONSTANTS
  Width = 2
  Height = 1
  Packets <- MCPackets
  KeyByte = 9
  MaxPoll = 4
  MaxBytes = 3
  MaxEvents = 7
INVARIANT PacketFitsArray

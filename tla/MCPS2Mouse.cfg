\* Polling alone with an endless mouse, and polling against the handler.
SPECIFICATION FairSpec
CONSTANTS
  Width = 2
  Height = 1
  Packets <- MCPackets
  KeyByte = 9
  MaxPoll = 4
  MaxBytes = 3
  MaxEvents = 7
INVARIANTS TypeOK ReportedInBounds PollingTracksMouse
PROPERTY PollingReportsPresses

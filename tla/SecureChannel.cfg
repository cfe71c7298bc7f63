SPECIFICATION FairChannelSpec
CONSTANTS
  Modulus = 16
  RollFrom = 11
  RollTo = 4
  MaxChunkCount = 0
  MaxMessageSize = 3
  Starts <- MCStarts
  LastNumber = 14
  FirstNumber = 1
  MaxRequests = 2
  MaxParts = 3
  MaxFaults = 1
INVARIANTS
  ChannelTypeOK
  RepliesWhole
  ReturnsReply
  RefusesOnlySpoilt
  FreedOnlyWhileClosing
PROPERTIES
  RepliesKept
  CallsEnd

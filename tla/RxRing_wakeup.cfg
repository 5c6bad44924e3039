\* One packet value: nothing checked here looks at what was received.
SPECIFICATION FairSpec
CONSTANTS
  N = 4
  MinThreshold = 2
  Packet = {p1}
  NoPacket = NoPacket
  IrqMayStall = FALSE
INVARIANT LowRingNoticed
PROPERTIES FullRingGetsRoom Led0GoesOff

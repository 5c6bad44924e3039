\* No call fails and the device stays bound.  The module stops when it is gone.
SPECIFICATION ModFairSpec
CONSTANTS
  N = 2
  MinThreshold = 0
  Packet = {p1}
  NoPacket = NoPacket
  IrqMayStall = FALSE
  Failures = {}
  MayUnbind = FALSE
  Devices = {"always"}
  MaxOpens = 1
INVARIANTS OopsIsLateWork UnloadReleases
PROPERTY UnloadEnds
CHECK_DEADLOCK FALSE

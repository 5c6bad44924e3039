\* Nothing fails: an interrupt comes between cancel_work_sync and free_irq.
SPECIFICATION ModSpec
CONSTANTS
  N = 3
  MinThreshold = 1
  Packet = {p1}
  NoPacket = NoPacket
  IrqMayStall = FALSE
  Failures = {}
  MayUnbind = FALSE
  Devices = {"always"}
  MaxOpens = 1
INVARIANT UnloadIsClean
CHECK_DEADLOCK FALSE

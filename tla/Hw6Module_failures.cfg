\* Every call may fail, root may unbind the device at any time, and it may or
\* may not heed its bus mastering bit.
SPECIFICATION ModSpec
CONSTANTS
  N = 3
  MinThreshold = 1
  Packet = {p1, p2}
  NoPacket = NoPacket
  IrqMayStall = FALSE
  Failures = {"chrdev", "cdev", "driver", "device", "enable", "regions", "mapping", "irq", "class", "node"}
  MayUnbind = TRUE
  Devices = {"off", "on", "always"}
  MaxOpens = 1
INVARIANTS ModTypeOK HandlerSafe DmaIntoRing FailedLoadLeaves BoundRingNoticed
PROPERTIES OopsHasCause ModuleIsQueue
VIEW SafetyView
CHECK_DEADLOCK FALSE
